---------------------------- MODULE Spec2Model ----------------------------
(***************************************************************************)
(* The execution orchestrator of Pontus-Execution-Layer                   *)
(* (app/services/execution/advanced_execution_service.py): one execution  *)
(* of a route, driven by the coroutine execute_route, and the control      *)
(* coroutines pause_execution, resume_execution, cancel_execution and      *)
(* reroute_execution that other tasks of the same asyncio event loop call  *)
(* on it.  A step of the model is the code a coroutine runs between two    *)
(* suspension points: asyncio switches tasks only at an await that really  *)
(* suspends (an executor's simulated delay, the segment source's I/O, a    *)
(* sleep, a lock that is taken).                                           *)
(***************************************************************************)
EXTENDS Integers, Sequences, FiniteSets

\* ------------------------------------------------------------------ bounds

\* longest route the routing service hands to the orchestrator
MaxRouteLen == 4
\* most control calls queued on the execution's lock at one time
MaxWaiters == 1
\* the requested amount (request.amount)
RequestAmount == 10

\* ------------------------------------------------------- segments and routes

\* the segment types of the pool: one the parallel grouping treats as
\* independent, one it does not
SegmentTypes == {"fx", "bridge"}

\* The segment dicts of a route: segment_type, cost.fixed_fee,
\* cost.effective_fx_rate (fee_percent is 0 in this pool) and provider.
\* Provider "main" offers the segments of the route first chosen, "alt" the
\* segments of a route computed later.
SegmentOf(t, p) ==
    [segment_type |-> t,
     fixed_fee |-> IF t = "fx" THEN 1 ELSE 3,
     rate |-> IF t = "fx" THEN 2 ELSE 1,
     provider |-> p]

RECURSIVE SeqsUpTo(_, _)
SeqsUpTo(S, n) ==
    IF n = 0 THEN {<<>>}
    ELSE LET shorter == SeqsUpTo(S, n - 1)
         IN  shorter \cup {Append(s, x) : s \in {q \in shorter : Len(q) = n - 1}, x \in S}

\* routes find_optimal_route can return on the first request: never empty
InitialRoutes ==
    SeqsUpTo({SegmentOf(t, "main") : t \in SegmentTypes}, MaxRouteLen) \ {<<>>}

\* routes find_optimal_route can return for a re-route request
AltRoutes == {<<SegmentOf("bridge", "alt"), SegmentOf("fx", "alt")>>}

\* ------------------------------------------------------------------- state

VARIABLES
    parallel,            \* execute_route's argument parallel
    ai_rerouting,        \* execute_route's argument enable_ai_rerouting
    execution_state,     \* execution_states[id]
    status,              \* active_executions[id]["status"]
    route,               \* active_executions[id]["route"]
    total_segments,      \* active_executions[id]["total_segments"]
    current_segment,     \* active_executions[id]["current_segment"]
    exec_amount,         \* active_executions[id]["current_amount"]
    transaction_ids,     \* transaction_ids[id]: indices with a provider transaction
    lock,                \* execution_locks[id]: "free" or the coroutine holding it
    waiters,             \* control calls suspended in the lock's acquire, FIFO
    pc,                  \* where execute_route's coroutine is suspended
    iter_segments,       \* the list the loop's enumerate() iterates
    route_segments,      \* the loop's local name route_segments
    idx,                 \* the loop's idx
    segment_executions,  \* the loop's list of results (shared with the record)
    current_amount,      \* the loop's local current_amount
    parallel_groups,     \* _execute_parallel's parallel_groups
    group_idx,           \* _execute_parallel's group_idx
    running,             \* segment indices of the gathered tasks not yet finished
    finished,            \* results of the gathered tasks that have finished
    response,            \* what execute_route returned, or NoResponse
    cancel_at,           \* history: where the execution was when cancel_execution
                         \* first set CANCELLING: "none" (never), "boundary",
                         \* "in_flight" or "finished"
    unguarded_write,     \* history: control state or route written outside the lock
    segment_dict,        \* _execute_segment's argument segment_dict
    call_amount,         \* _execute_segment's argument input_amount
    wallet_address,      \* _execute_segment's argument wallet_address
    ex_pc,               \* where the call of _execute_segment is: "called",
                         \* "awaiting" (the executor is suspended) or "returned"
    pending,             \* the suspended executor's locals: the result it will return
    call_result,         \* what _execute_segment returned, or NoResult
    wallets,             \* Simulator.wallets: the balance of each wallet and asset
    ledger_call,         \* the last call of a ledger operation and what it returned
    tasks,               \* the executors of one gathered group: each one's segment,
                         \* input, position and the result it will return
    transactions,        \* Simulator.transactions, by the task that created the hash
    initial_wallets,     \* history: the ledger when the group was dispatched
    settled,             \* history: per asset, what the executors' calls topped up,
                         \* debited and credited
    source_segments,     \* the list of segments a graph is built from
    graph,               \* the RouteGraph: nodes, graph (node -> neighbours with
                         \* their segment lists) and segments
    query,               \* the arguments of the last find_paths
    all_paths,           \* what find_paths returned
    search_pc,           \* "idle", "built" (graph built) or "searched"
    routing,             \* one call of find_optimal_route: its arguments, what
                         \* each backend did and what it returned
    solving,             \* one call of solve_multi_objective: its arguments and
                         \* the candidates it returned
    candidate_routes,    \* the decision layer's argument: the candidates' metrics
    selected,            \* what select_optimal_route returned, with its pass
    ranked,              \* what rank_routes returned, with its pass
    reroute_call         \* one call of reroute_execution: its arguments, where it
                         \* is and what it returned

vars == <<parallel, ai_rerouting, execution_state, status, route, total_segments,
          current_segment, exec_amount, transaction_ids, lock, waiters, pc,
          iter_segments, route_segments, idx, segment_executions, current_amount,
          parallel_groups, group_idx, running, finished, response,
          cancel_at, unguarded_write,
          segment_dict, call_amount, wallet_address, ex_pc, pending,
          call_result, wallets, ledger_call,
          tasks, transactions, initial_wallets, settled,
          source_segments, graph, query, all_paths, search_pc, routing, solving,
          candidate_routes, selected, ranked, reroute_call>>

\* the state of one execution and its control calls
orch_vars == <<parallel, ai_rerouting, execution_state, status, route, total_segments,
               current_segment, exec_amount, transaction_ids, lock, waiters, pc,
               iter_segments, route_segments, idx, segment_executions, current_amount,
               parallel_groups, group_idx, running, finished, response,
               cancel_at, unguarded_write>>

\* the state of one call of _execute_segment and of the simulator's ledger
call_vars == <<segment_dict, call_amount, wallet_address, ex_pc, pending,
               call_result>>
\* a group of executors settling on one wallet
settle_vars == <<tasks, transactions, initial_wallets, settled>>
\* a route graph and a search of it
search_vars == <<source_segments, graph, query, all_paths, search_pc, routing,
                 solving>>
\* the decision layer's calls
decision_vars == <<candidate_routes, selected, ranked>>
\* the state of the parts the orchestrator calls into
lib_vars == <<settle_vars, search_vars, decision_vars, reroute_call>>
sim_vars == <<call_vars, wallets, ledger_call, lib_vars>>
\* what a step of a group of executors leaves alone besides the ledger, and
\* what a step of the graph code leaves alone
outside_settle == <<orch_vars, call_vars, ledger_call, search_vars, decision_vars,
                    reroute_call>>
outside_search == <<orch_vars, call_vars, wallets, ledger_call, settle_vars,
                    decision_vars, reroute_call>>
outside_decision == <<orch_vars, call_vars, wallets, ledger_call, settle_vars,
                      search_vars, reroute_call>>

exec_vars == <<status, route, total_segments, current_segment, exec_amount>>
loop_vars == <<iter_segments, route_segments, idx, segment_executions, current_amount>>
par_vars == <<parallel_groups, group_idx, running, finished>>
args == <<parallel, ai_rerouting>>

NoResponse == [status |-> "NONE"]


\* ------------------------------------------------------ segment execution

Max(a, b) == IF a >= b THEN a ELSE b

\* the output amount of a simulated segment: FXExecutor multiplies what is
\* left after the fees by the rate, BridgeExecutor (same asset, other
\* network) keeps what is left after the fees, never less than 0
OutputAmount(segment, input_amount) ==
    IF segment.segment_type = "fx"
    THEN (input_amount - segment.fixed_fee) * segment.rate
    ELSE Max(0, input_amount - segment.fixed_fee)

\* an execution that hands the requested amount to every segment
ExecuteSegmentOnRequest(segment_index, segment, input_amount, ok) ==
    [segment_index |-> segment_index,
     segment_type |-> segment.segment_type,
     provider |-> segment.provider,
     status |-> IF ok THEN "COMPLETED" ELSE "FAILED",
     input_amount |-> RequestAmount,
     output_amount |-> IF ok THEN OutputAmount(segment, RequestAmount) ELSE 0,
     fees_paid |-> IF ok THEN segment.fixed_fee ELSE 0,
     transaction_hash |-> ok /\ segment.segment_type # "fx"]

\* _execute_segment: the executor's result for one segment.  ok = FALSE is
\* every way the executor or the wrapper ends in its except branch.
ExecuteSegment(segment_index, segment, input_amount, ok) ==
    IF ok
    THEN [segment_index |-> segment_index,
          segment_type |-> segment.segment_type,
          provider |-> segment.provider,
          status |-> "COMPLETED",
          input_amount |-> input_amount,
          output_amount |-> OutputAmount(segment, input_amount),
          fees_paid |-> segment.fixed_fee,
          transaction_hash |-> segment.segment_type # "fx"]
    ELSE [segment_index |-> segment_index,
          segment_type |-> segment.segment_type,
          provider |-> segment.provider,
          status |-> "FAILED",
          input_amount |-> input_amount,
          output_amount |-> 0,
          fees_paid |-> 0,
          transaction_hash |-> FALSE]

\* _execute_segment, "Store transaction IDs for cancellation"
StoreTransactionId(ids, result) ==
    IF result.transaction_hash THEN ids \cup {result.segment_index} ELSE ids

RECURSIVE SumFees(_)
SumFees(results) ==
    IF results = <<>> THEN 0
    ELSE Head(results).fees_paid + SumFees(Tail(results))

AnyFailed(results) == \E i \in 1..Len(results) : results[i].status = "FAILED"

\* ---------------------------------------------------------------- responses

\* the status _build_response computes
ResponseStatus(results, state) ==
    IF AnyFailed(results) THEN "FAILED"
    ELSE IF state = "CANCELLING" THEN "CANCELLED"
    ELSE "COMPLETED"

BuildResponse(segments, results, final_amount, state) ==
    [status |-> ResponseStatus(results, state),
     route |-> segments,
     total_fees |-> SumFees(results),
     final_amount |-> final_amount,
     segment_executions |-> results]

HandleCancellation(results, original_amount) ==
    [status |-> "CANCELLED",
     route |-> route,
     total_fees |-> SumFees(results),
     final_amount |-> IF results = <<>> THEN original_amount
                      ELSE results[Len(results)].output_amount,
     segment_executions |-> results]

\* ------------------------------------------------- the simulator's ledger

\* wallet addresses and assets of the ledger
WalletIds == {"w1", "w2"}
Assets == {"USD", "USDC"}

\* Simulator.__init__: no wallet is held.  get_balance reads 0.0 for a wallet
\* or an asset the dicts do not hold, so the ledger is the function giving
\* each wallet's balance of each asset.
EmptyLedger == [w \in WalletIds |-> [a \in Assets |-> 0]]

GetBalance(w, wallet_id, asset) == w[wallet_id][asset]

SetBalance(w, wallet_id, asset, amount) == [w EXCEPT ![wallet_id][asset] = amount]

AddBalance(w, wallet_id, asset, amount) ==
    SetBalance(w, wallet_id, asset, GetBalance(w, wallet_id, asset) + amount)

\* a subtraction that is never refused
SubtractAlways(w, wallet_id, asset, amount) == TRUE

\* subtract_balance's test "if current >= amount": what it returns
SubtractSucceeds(w, wallet_id, asset, amount) ==
    GetBalance(w, wallet_id, asset) >= amount

SubtractBalance(w, wallet_id, asset, amount) ==
    IF SubtractSucceeds(w, wallet_id, asset, amount)
    THEN SetBalance(w, wallet_id, asset, GetBalance(w, wallet_id, asset) - amount)
    ELSE w

\* no ledger operation has been called
NoCall == [op |-> "none", wallet_id |-> "w1", asset |-> "USD", amount |-> 0,
           returned |-> "None"]

\* ------------------------------------------------------ segment executors

\* the members of the enum SegmentType and those with an executor
SegmentTypeEnum ==
    {"fx", "crypto", "gas", "bridge", "on_ramp", "off_ramp", "bank_rail", "liquidity"}
ExecutorTypes == {"fx", "crypto", "bridge", "on_ramp", "off_ramp", "bank_rail"}

\* The value a dict holds for a key: none (the key is absent), None or a
\* number.
Absent == [kind |-> "absent", value |-> 0]
None == [kind |-> "none", value |-> 0]
Num(v) == [kind |-> "num", value |-> v]

\* dict.get(key, default)
DictGet(dict, key, default) ==
    IF dict[key].kind = "absent" THEN Num(default) ELSE dict[key]

\* the cost maps of the segments executed: each key absent or with one of
\* these values, effective_fx_rate also None (the schema's default)
FeePercents == {-50, 0, 50, 150}
FixedFees == {-1, 0, 1}
Rates == {-1, 0, 1, 2}
Costs ==
    [fee_percent : {Absent} \cup {Num(v) : v \in FeePercents},
     fixed_fee : {Absent} \cup {Num(v) : v \in FixedFees},
     effective_fx_rate : {Absent, None} \cup {Num(v) : v \in Rates}]

\* the latency maps: empty, a window, a window with min above max
Latencies ==
    {[min_minutes |-> Absent, max_minutes |-> Absent],
     [min_minutes |-> Num(5), max_minutes |-> Num(10)],
     [min_minutes |-> Num(10), max_minutes |-> Num(5)]}

\* the segment dicts _execute_segment is called with: the types with an
\* executor, one without ("gas") and one that is no SegmentType ("swap")
SegmentDicts ==
    [segment_type : ExecutorTypes \cup {"gas", "swap"},
     cost : Costs,
     latency : Latencies]

\* most units of two the input amount has
MaxInputUnits == 2
\* the input amounts: negative, zero and positive, all even so that the
\* percentages below are whole numbers
Inputs == {2 * k : k \in -1..MaxInputUnits}

\* the assets of the segment and the balance a wallet passed in may hold
FromAsset == "USD"
ToAsset == "USDC"
HeldBalance == 4

Min(a, b) == IF a <= b THEN a ELSE b

\* max(0.0, min(100.0, x))
ClampPercent(x) == Max(0, Min(100, x))

\* input_amount * fee_percent / 100
PercentOf(amount, fee_percent) == (amount * fee_percent) \div 100

\* What an executor's code computes up to its first suspension: it raised
\* (the except branch follows) or it has the fees and the output amount.
Raised == [raised |-> TRUE, fees |-> 0, output_amount |-> 0]
Computed(fees, output_amount) ==
    [raised |-> FALSE, fees |-> fees, output_amount |-> output_amount]

\* FXExecutor.execute, simulation: cost values as they are, no check of the
\* rate or the input; None as a rate raises TypeError in the product, and
\* simulate_fx_conversion's random.randint raises ValueError on an empty
\* range
FXExecutor(segment, amount) ==
    LET fee_percent == DictGet(segment.cost, "fee_percent", 0).value
        fixed_fee == DictGet(segment.cost, "fixed_fee", 0).value
        fx_rate == DictGet(segment.cost, "effective_fx_rate", 1)
        fees == PercentOf(amount, fee_percent) + fixed_fee
        amount_after_fees == amount - fees
        min_minutes == DictGet(segment.latency, "min_minutes", 5).value
        max_minutes == DictGet(segment.latency, "max_minutes", 10).value
    IN  IF fx_rate.kind = "none" THEN Raised
        ELSE IF min_minutes > max_minutes THEN Raised
        ELSE Computed(fees, amount_after_fees * fx_rate.value)

\* "Calculate fees and output amount with validation" as CryptoExecutor,
\* RampExecutor (both branches) and BankRailExecutor have it: None as a rate
\* raises TypeError in "rate <= 0"
ValidatedOutcome(segment, amount) ==
    LET fee_percent == ClampPercent(DictGet(segment.cost, "fee_percent", 0).value)
        fixed_fee == Max(0, DictGet(segment.cost, "fixed_fee", 0).value)
        rate == DictGet(segment.cost, "effective_fx_rate", 1)
        fees == PercentOf(amount, fee_percent) + fixed_fee
        amount_after_fees == Max(0, amount - fees)
    IN  IF rate.kind = "none" THEN Raised
        ELSE IF rate.value <= 0 THEN Raised
        ELSE IF amount < 0 THEN Raised
        ELSE Computed(fees, amount_after_fees * rate.value)

CryptoExecutor(segment, amount) == ValidatedOutcome(segment, amount)
RampExecutor(segment, amount) == ValidatedOutcome(segment, amount)
BankRailExecutor(segment, amount) == ValidatedOutcome(segment, amount)

\* BridgeExecutor.execute: the rate is not read
BridgeExecutor(segment, amount) ==
    LET fee_percent == ClampPercent(DictGet(segment.cost, "fee_percent", 0).value)
        fixed_fee == Max(0, DictGet(segment.cost, "fixed_fee", 0).value)
        fees == PercentOf(amount, fee_percent) + fixed_fee
    IN  IF amount < 0 THEN Raised
        ELSE Computed(fees, Max(0, amount - fees))

\* "Ensure wallet has balance"
EnsureBalance(w, wallet_id, asset, amount) ==
    IF GetBalance(w, wallet_id, asset) < amount
    THEN AddBalance(w, wallet_id, asset, amount - GetBalance(w, wallet_id, asset))
    ELSE w

\* nothing has been returned
NoResult ==
    [status |-> "NONE", segment_type |-> "", input_amount |-> 0, output_amount |-> 0,
     fees_paid |-> 0, transaction_hash |-> FALSE]

\* an error that leaves the call
Reraise(segment_type, amount) ==
    [status |-> "RAISED", segment_type |-> segment_type, input_amount |-> amount,
     output_amount |-> 0, fees_paid |-> 0, transaction_hash |-> FALSE]

\* the result built by "except Exception" in every executor and in
\* _execute_segment
ExceptBranch(segment_type, amount) ==
    [status |-> "FAILED", segment_type |-> segment_type, input_amount |-> amount,
     output_amount |-> 0, fees_paid |-> 0, transaction_hash |-> FALSE]

\* the result an executor returns after its simulated settlement
CompletedResult(segment_type, amount, outcome, tx_hash) ==
    [status |-> "COMPLETED", segment_type |-> segment_type, input_amount |-> amount,
     output_amount |-> outcome.output_amount, fees_paid |-> outcome.fees,
     transaction_hash |-> tx_hash]

\* _execute_segment for a SegmentType without an executor
SkippedResult(segment_type, amount) ==
    [status |-> "SKIPPED", segment_type |-> segment_type, input_amount |-> amount,
     output_amount |-> amount, fees_paid |-> 0, transaction_hash |-> FALSE]

\* the address generate_wallet draws (40 random hex digits)
GeneratedWallet == "w2"

\* "if not wallet_address: wallet_address = self.simulator.generate_wallet(...)"
Wallet == IF wallet_address = "none" THEN GeneratedWallet ELSE wallet_address

\* no call of _execute_segment is in progress, the ledger is as constructed
NoSegmentCall ==
    /\ segment_dict = [segment_type |-> "fx",
                       cost |-> [fee_percent |-> Absent, fixed_fee |-> Absent,
                                 effective_fx_rate |-> Absent],
                       latency |-> [min_minutes |-> Absent, max_minutes |-> Absent]]
    /\ call_amount = 0
    /\ wallet_address = "none"
    /\ ex_pc = "returned"
    /\ pending = NoResult
    /\ call_result = NoResult

\* ------------------------------------- executors settling on one wallet

\* executors gathered in one group, and the input amount the group is
\* dispatched with (every task of a group gets the same current_amount and
\* the same wallet_address)
MaxTasks == 2
TaskAmount == 2
TaskIds == 1..MaxTasks
GroupWallet == "w1"

\* the segments of a group: a swap in either direction, a bridge of one
\* asset, an on-ramp, an off-ramp; a fee of one half or a cost dict whose
\* rate is None; latency windows in minutes
TaskCosts ==
    {[fee_percent |-> Num(50), fixed_fee |-> Absent, effective_fx_rate |-> Absent],
     [fee_percent |-> Absent, fixed_fee |-> Absent, effective_fx_rate |-> None]}
TaskLatencies ==
    {[min_minutes |-> Num(0), max_minutes |-> Num(1)],
     [min_minutes |-> Num(1), max_minutes |-> Num(0)]}
TaskAssets ==
    {<<"crypto", "USD", "USDC">>, <<"crypto", "USDC", "USD">>,
     <<"bridge", "USDC", "USDC">>, <<"on_ramp", "USD", "USDC">>,
     <<"off_ramp", "USDC", "USD">>}
TaskSegments ==
    {[segment_type |-> ta[1], from_asset |-> ta[2], to_asset |-> ta[3],
      from_network |-> "ethereum", cost |-> c, latency |-> l] :
        ta \in TaskAssets, c \in TaskCosts, l \in TaskLatencies}

\* "block_time = 12.0 if segment.from_network != "polygon" else 2.0"
BlockTime(segment) == IF segment.from_network /= "polygon" THEN 12 ELSE 2

\* "min_blocks = max(1, int(min_minutes * 60 / block_time))"
MinBlocks(segment, default) ==
    Max(1, (DictGet(segment.latency, "min_minutes", default).value * 60)
           \div BlockTime(segment))

\* "max_blocks = max(min_blocks, int(max_minutes * 60 / block_time))"
MaxBlocks(segment, default_min, default_max) ==
    Max(MinBlocks(segment, default_min),
        (DictGet(segment.latency, "max_minutes", default_max).value * 60)
        \div BlockTime(segment))

\* the defaults of the latency window: CryptoExecutor 2..5, BridgeExecutor
\* 5..15, off-ramp 5..15 minutes
DefaultMinMinutes(segment) == IF segment.segment_type = "crypto" THEN 2 ELSE 5
DefaultMaxMinutes(segment) == IF segment.segment_type = "crypto" THEN 5 ELSE 15

\* random.randint(min_blocks, max_blocks)
BlocksToConfirm(min_blocks, max_blocks) == min_blocks..max_blocks

\* create_transaction: the record of a new hash
PendingTransaction == [status |-> "pending", confirmations |-> 0]
\* a confirmation that leaves the status as it was
StillPending(blocks_to_confirm) ==
    [status |-> "pending", confirmations |-> blocks_to_confirm]
\* simulate_confirmation after its sleep
ConfirmedTransaction(blocks_to_confirm) ==
    [status |-> "confirmed", confirmations |-> blocks_to_confirm]
\* a hash create_transaction has not returned
NoTransaction == [status |-> "none", confirmations |-> 0]

\* a credit that overwrites the balance
CreditOverwrites(w, wallet_id, asset, amount) == SetBalance(w, wallet_id, asset, amount)

\* "Add output to wallet": add_balance(wallet_address, segment.to_asset,
\* output_amount)
Credit(w, wallet_id, asset, amount) == AddBalance(w, wallet_id, asset, amount)

\* what the code of an executor computes before it suspends
TaskOutcome(segment, amount) ==
    IF segment.segment_type = "crypto" THEN CryptoExecutor(segment, amount)
    ELSE IF segment.segment_type = "bridge" THEN BridgeExecutor(segment, amount)
    ELSE RampExecutor(segment, amount)

\* the executors that debit the source asset and create a transaction
Debits(segment) == segment.segment_type \in {"crypto", "bridge", "off_ramp"}
\* the executors that credit the destination asset
Credits(segment) == segment.segment_type \in {"crypto", "bridge", "on_ramp"}

NoTask ==
    [pc |-> "idle", segment |-> CHOOSE s \in TaskSegments : TRUE,
     blocks_to_confirm |-> 0, min_blocks |-> 0, max_blocks |-> 0,
     result |-> NoResult]

ZeroPerAsset == [a \in Assets |-> 0]
NothingSettled ==
    [topped_up |-> ZeroPerAsset, debited |-> ZeroPerAsset, credited |-> ZeroPerAsset]

\* no group of executors is settling
NoSettlement ==
    /\ tasks = [t \in TaskIds |-> NoTask]
    /\ transactions = [t \in TaskIds |-> NoTransaction]
    /\ initial_wallets = EmptyLedger
    /\ settled = NothingSettled

\* ------------------------------------------------------ the route graph

\* the longest list of segments a graph is built from, and the largest
\* max_hops a search is called with
MaxSegments == 3
MaxHops == 3

\* A node id is the string asset or asset@network; it is the sequence of its
\* parts, <<asset>> or <<asset, network>> (no asset or network name holds an
\* "@").  "none" stands for a network that is None.
Networks == {"eth", "poly"}
NoNetwork == "none"

\* f"{asset}@{network}" if network else asset
NodeId(asset, network) == IF network /= NoNetwork THEN <<asset, network>> ELSE <<asset>>

AssetOnly(segment) == segment.segment_type \in {"fx", "bank_rail"}

\* add_segment: the node ids of a segment's two ends
FromNode(segment) ==
    IF AssetOnly(segment) THEN <<segment.from_asset>>
    ELSE NodeId(segment.from_asset, segment.from_network)
ToNode(segment) ==
    IF AssetOnly(segment) THEN <<segment.to_asset>>
    ELSE NodeId(segment.to_asset, segment.to_network)

\* a next node that reads the network of every segment
NextNodeOfAnyType(segment) == NodeId(segment.to_asset, segment.to_network)

\* find_paths, "Determine next node based on segment type"
NextNode(segment) ==
    IF AssetOnly(segment) THEN <<segment.to_asset>>
    ELSE NodeId(segment.to_asset, segment.to_network)

\* RouteGraph.__init__
EmptyGraph == [nodes |-> {}, graph |-> <<>>, segments |-> <<>>]

\* self.graph.get(node, {}): the neighbours of a node in insertion order,
\* each with its list of segments
GetNeighbors(g, node) == IF node \in DOMAIN g.graph THEN g.graph[node] ELSE <<>>

\* self.graph[from_node][to_node].append(segment)
AppendTo(neighbors, to_node, segment) ==
    IF \E k \in 1..Len(neighbors) : neighbors[k].neighbor = to_node
    THEN [k \in 1..Len(neighbors) |->
            IF neighbors[k].neighbor = to_node
            THEN [neighbors[k] EXCEPT !.segments_list = Append(@, segment)]
            ELSE neighbors[k]]
    ELSE Append(neighbors, [neighbor |-> to_node, segments_list |-> <<segment>>])

AddSegment(g, segment) ==
    LET from_node == FromNode(segment)
        to_node == ToNode(segment)
    IN  [nodes |-> g.nodes \cup {from_node, to_node},
         graph |-> [n \in (DOMAIN g.graph) \cup {from_node} |->
                      IF n = from_node
                      THEN AppendTo(GetNeighbors(g, from_node), to_node, segment)
                      ELSE g.graph[n]],
         segments |-> Append(g.segments, segment)]

\* GraphBuilder.build_graph
RECURSIVE BuildFrom(_, _, _)
BuildFrom(g, segments, k) ==
    IF k > Len(segments) THEN g
    ELSE BuildFrom(AddSegment(g, segments[k]), segments, k + 1)
BuildGraph(segments) == BuildFrom(EmptyGraph, segments, 1)

\* the segments of "for neighbor, segments_list in neighbors.items(): for
\* segment in segments_list", in the order of the iteration
RECURSIVE Flatten(_, _)
Flatten(neighbors, k) ==
    IF k > Len(neighbors) THEN <<>>
    ELSE neighbors[k].segments_list \o Flatten(neighbors, k + 1)

\* current.startswith(end + "@")
StartsWithAt(current, end) ==
    /\ Len(current) > Len(end)
    /\ SubSeq(current, 1, Len(end)) = end

\* "if any(current == end or current.startswith(end + "@") for end in end_nodes)"
ReachedDestination(current, end_nodes) ==
    \E k \in 1..Len(end_nodes) :
        current = end_nodes[k] \/ StartsWithAt(current, end_nodes[k])

\* a search that stops at the hop limit only
NeverVisited(current, visited) == FALSE

\* "if current in visited"
Visited(current, visited) == current \in visited

\* dfs(current, path, depth, visited): the paths it appends to all_paths
RECURSIVE Dfs(_, _, _, _, _, _, _)
RECURSIVE DfsEach(_, _, _, _, _, _, _, _, _)
Dfs(g, end_nodes, max_hops, current, path, depth, visited) ==
    IF depth > max_hops THEN <<>>
    ELSE IF ReachedDestination(current, end_nodes) THEN <<path>>
    ELSE IF Visited(current, visited) THEN <<>>
    ELSE DfsEach(g, end_nodes, max_hops, Flatten(GetNeighbors(g, current), 1), 1,
                 current, path, depth, visited \cup {current})
DfsEach(g, end_nodes, max_hops, edges, k, current, path, depth, visited) ==
    IF k > Len(edges) THEN <<>>
    ELSE Dfs(g, end_nodes, max_hops, NextNode(edges[k]), Append(path, edges[k]),
             depth + 1, visited)
         \o DfsEach(g, end_nodes, max_hops, edges, k + 1, current, path, depth,
                    visited)

\* find_paths: start_nodes and end_nodes
StartNodes(from_asset, from_network) ==
    IF from_network /= NoNetwork
    THEN <<NodeId(from_asset, from_network), <<from_asset>>>>
    ELSE <<NodeId(from_asset, from_network)>>
EndNodes(to_asset, to_network) ==
    IF to_network /= NoNetwork
    THEN <<NodeId(to_asset, to_network), <<to_asset>>>>
    ELSE <<NodeId(to_asset, to_network)>>

\* "for start in start_nodes: if start in self.nodes: dfs(start, [], 0, set())"
RECURSIVE FromStarts(_, _, _, _, _)
FromStarts(g, start_nodes, end_nodes, max_hops, k) ==
    IF k > Len(start_nodes) THEN <<>>
    ELSE (IF start_nodes[k] \in g.nodes
          THEN Dfs(g, end_nodes, max_hops, start_nodes[k], <<>>, 0, {})
          ELSE <<>>)
         \o FromStarts(g, start_nodes, end_nodes, max_hops, k + 1)

FindPaths(g, from_asset, to_asset, from_network, to_network, max_hops) ==
    FromStarts(g, StartNodes(from_asset, from_network),
               EndNodes(to_asset, to_network), max_hops, 1)

\* the segments the segment source holds
GraphAssets == {"USD", "USDC"}
Seg(id, segment_type, from_asset, from_network, to_asset, to_network) ==
    [id |-> id, segment_type |-> segment_type,
     from_asset |-> from_asset, from_network |-> from_network,
     to_asset |-> to_asset, to_network |-> to_network]
SourceSegments ==
    {Seg("a", "fx", "USD", NoNetwork, "USDC", NoNetwork),
     Seg("b", "bank_rail", "USDC", "eth", "USD", "poly"),
     Seg("c", "bridge", "USDC", "eth", "USDC", "poly"),
     Seg("d", "bridge", "USDC", "poly", "USDC", "eth"),
     Seg("e", "on_ramp", "USD", NoNetwork, "USDC", "eth"),
     Seg("f", "crypto", "USDC", "eth", "USD", NoNetwork)}

\* the lists of up to n different segments
RECURSIVE SegmentLists(_)
SegmentLists(n) ==
    IF n = 0 THEN {<<>>}
    ELSE LET shorter == SegmentLists(n - 1)
         IN  shorter \cup
             {Append(p[1], p[2]) :
                p \in {q \in shorter \X SourceSegments :
                         /\ Len(q[1]) = n - 1
                         /\ \A k \in 1..Len(q[1]) : q[1][k] /= q[2]}}

NoQuery ==
    [from_asset |-> "USD", to_asset |-> "USD", from_network |-> NoNetwork,
     to_network |-> NoNetwork, max_hops |-> 0]

\* no graph has been built and nothing searched
NoGraph ==
    /\ source_segments = <<>>
    /\ graph = EmptyGraph
    /\ query = NoQuery
    /\ all_paths = <<>>
    /\ search_pc = "idle"

\* find_optimal_route has not been called
NoRouting == [pc |-> "idle"]

\* solve_multi_objective has not been called
NoSolving == [pc |-> "idle"]

NoSearch == NoGraph /\ routing = NoRouting /\ solving = NoSolving

\* --------------------------------------------------- the decision layer

\* the longest list of candidates the decision layer is called with
MaxCandidates == 3

\* the weights alpha, beta and gamma, in tenths
Alpha == 4
Beta == 3
Gamma == 3

\* metrics of a candidate: total_cost and total_latency in any unit,
\* reliability in hundredths
CostValues == {0, 1, 3}
LatencyValues == {0, 2}
ReliabilityValues == {90, 100}
CandidateMetrics ==
    [total_cost : CostValues, total_latency : LatencyValues,
     reliability : ReliabilityValues]

RECURSIVE CandidateLists(_)
CandidateLists(n) ==
    IF n = 0 THEN {<<>>}
    ELSE LET shorter == CandidateLists(n - 1)
         IN  shorter \cup
             {Append(l, m) : l \in {s \in shorter : Len(s) = n - 1},
                             m \in CandidateMetrics}

\* a float that is the quotient num / den of two integers, den > 0
Quotient(num, den) == [num |-> num, den |-> den]
LessOrEqual(x, y) == x.num * y.den <= y.num * x.den
Equal(x, y) == x.num * y.den = y.num * x.den

\* min(values) and max(values) of a non-empty list
MinOf(values) ==
    CHOOSE v \in {values[k] : k \in 1..Len(values)} :
        \A k \in 1..Len(values) : v <= values[k]
MaxOf(values) ==
    CHOOSE v \in {values[k] : k \in 1..Len(values)} :
        \A k \in 1..Len(values) : v >= values[k]

\* "max_cost - min_cost if max_cost > min_cost else 1.0"
RangeOf(values) ==
    IF MaxOf(values) > MinOf(values) THEN MaxOf(values) - MinOf(values) ELSE 1

\* a division raises ZeroDivisionError when its divisor is zero
DivisionByZero == [num |-> 0, den |-> 0]
RECURSIVE Gcd(_, _)
Gcd(a, b) == IF b = 0 THEN a ELSE Gcd(b, a % b)
Divide(num, den) ==
    IF den = 0 THEN DivisionByZero
    ELSE Quotient(num \div Gcd(den, num), den \div Gcd(den, num))

\* "(x - min) / range if range > 0 else 0.0"
Normalize(x, values) ==
    IF RangeOf(values) > 0 THEN Divide(x - MinOf(values), RangeOf(values))
    ELSE Quotient(0, 1)

\* "1.0 - (...)"
Inverted(q) == IF q.den = 0 THEN DivisionByZero ELSE Quotient(q.den - q.num, q.den)

\* alpha * norm_cost + beta * norm_latency + gamma * norm_reliability
Score(norm_cost, norm_latency, norm_reliability) ==
    Quotient(Alpha * norm_cost.num * norm_latency.den * norm_reliability.den
             + Beta * norm_latency.num * norm_cost.den * norm_reliability.den
             + Gamma * norm_reliability.num * norm_cost.den * norm_latency.den,
             10 * norm_cost.den * norm_latency.den * norm_reliability.den)

Column(candidate_list, key) ==
    [k \in 1..Len(candidate_list) |-> candidate_list[k][key]]

\* the normalization pass of select_optimal_route and of rank_routes: for
\* each candidate its index in the list, its normalized components and its
\* score
NormalizedRoutes(candidate_list) ==
    [k \in 1..Len(candidate_list) |->
        LET norm_cost == Normalize(candidate_list[k].total_cost,
                                   Column(candidate_list, "total_cost"))
            norm_latency == Normalize(candidate_list[k].total_latency,
                                      Column(candidate_list, "total_latency"))
            norm_reliability ==
                Inverted(Normalize(candidate_list[k].reliability,
                                   Column(candidate_list, "reliability")))
        IN  [index |-> k, metrics |-> candidate_list[k],
             norm_cost |-> norm_cost, norm_latency |-> norm_latency,
             norm_reliability |-> norm_reliability,
             score |-> Score(norm_cost, norm_latency, norm_reliability)]]

\* the pass raised: a division met a zero divisor
PassRaised(normalized) ==
    \E k \in 1..Len(normalized) :
        \/ normalized[k].norm_cost.den = 0
        \/ normalized[k].norm_latency.den = 0
        \/ normalized[k].norm_reliability.den = 0

\* the index of the first route of the list
ArgFirst(normalized) == 1

\* np.argmin, or min(range(len(...)), key=...): the first index with the
\* least score
ArgMin(normalized) ==
    CHOOSE i \in 1..Len(normalized) :
        /\ \A j \in 1..Len(normalized) :
             LessOrEqual(normalized[i].score, normalized[j].score)
        /\ \A j \in 1..(i - 1) :
             ~LessOrEqual(normalized[j].score, normalized[i].score)

\* sorted(normalized_routes, key=lambda x: x[2]): a stable sort, by insertion
RECURSIVE InsertByScore(_, _)
InsertByScore(sorted, item) ==
    IF sorted = <<>> THEN <<item>>
    ELSE IF LessOrEqual(sorted[Len(sorted)].score, item.score)
    THEN Append(sorted, item)
    ELSE Append(InsertByScore(SubSeq(sorted, 1, Len(sorted) - 1), item),
                sorted[Len(sorted)])
RECURSIVE SortedFrom(_, _, _)
SortedFrom(normalized, k, sorted) ==
    IF k > Len(normalized) THEN sorted
    ELSE SortedFrom(normalized, k + 1, InsertByScore(sorted, normalized[k]))
SortedByScore(normalized) == SortedFrom(normalized, 1, <<>>)

\* sorted_routes[:top_k], top_k >= 0
Truncate(routes, top_k) == SubSeq(routes, 1, Min(top_k, Len(routes)))

NotCalled == [called |-> FALSE, raised |-> FALSE]

\* select_optimal_route(candidate_routes): (None, {}, 0.0) for no candidate,
\* else the route at the arg min of the pass
SelectOptimalRoute(candidate_list) ==
    IF candidate_list = <<>>
    THEN [called |-> TRUE, raised |-> FALSE, optimal |-> "None",
          normalized |-> <<>>]
    ELSE LET normalized == NormalizedRoutes(candidate_list)
         IN  IF PassRaised(normalized)
             THEN [called |-> TRUE, raised |-> TRUE]
             ELSE [called |-> TRUE, raised |-> FALSE,
                   optimal |-> normalized[ArgMin(normalized)],
                   normalized |-> normalized]

\* rank_routes(candidate_routes, top_k)
RankRoutes(candidate_list, top_k) ==
    IF candidate_list = <<>>
    THEN [called |-> TRUE, raised |-> FALSE, top_k |-> top_k, routes |-> <<>>,
          normalized |-> <<>>]
    ELSE LET normalized == NormalizedRoutes(candidate_list)
         IN  IF PassRaised(normalized)
             THEN [called |-> TRUE, raised |-> TRUE]
             ELSE [called |-> TRUE, raised |-> FALSE, top_k |-> top_k,
                   routes |-> Truncate(SortedByScore(normalized), top_k),
                   normalized |-> normalized]

\* the decision layer has not been called
NoDecision ==
    /\ candidate_routes = <<>>
    /\ selected = NotCalled
    /\ ranked = NotCalled

\* ------------------------------------------------------ the routing service

\* find_paths' default max_hops and find_optimal_route's default
\* max_candidates
DefaultMaxHops == 5
DefaultMaxCandidates == 20

\* what the segment source's clients write into a segment: cost.fee_percent
\* (0 in this pool) and cost.fixed_fee as in the dicts of a route,
\* latency.min_minutes and latency.max_minutes, and reliability_score in
\* tenths
FeePercent(segment) == 0
FixedFee(segment) == SegmentOf(segment.segment_type, "main").fixed_fee
MinMinutes(segment) ==
    CASE segment.segment_type = "bank_rail" -> 2
      [] segment.segment_type = "bridge" -> 1
      [] OTHER -> 0
MaxMinutes(segment) ==
    CASE segment.segment_type = "fx" -> 0
      [] segment.segment_type = "bank_rail" -> 2
      [] OTHER -> 1
ReliabilityScore(segment) ==
    IF segment.segment_type \in {"bridge", "on_ramp"} THEN 9 ELSE 10

\* an average reliability is kept as 12 times the average of the tenths, a
\* whole number for every path of up to four segments
ReliabilityScale == 12

RECURSIVE SumOver(_, _, _)
SumOver(path, key, k) ==
    IF k > Len(path) THEN 0
    ELSE (CASE key = "fee_percent" -> FeePercent(path[k])
            [] key = "fixed_fee" -> FixedFee(path[k])
            [] key = "min_minutes" -> MinMinutes(path[k])
            [] key = "max_minutes" -> MaxMinutes(path[k])
            [] OTHER -> ReliabilityScore(path[k]))
         + SumOver(path, key, k + 1)

\* _calculate_path_metrics(path), with the path: total_cost in units of
\* 0.0001 (a tenth of a percent is 1000 of them), total_latency doubled,
\* reliability times ReliabilityScale (0.0 for the empty path), combined_score
\* (all three weights 1.0) in thirds of 0.0001
CalculatePathMetrics(path) ==
    LET total_cost_percent == SumOver(path, "fee_percent", 1)
        total_fixed_fee == SumOver(path, "fixed_fee", 1)
        total_min_latency == SumOver(path, "min_minutes", 1)
        total_max_latency == SumOver(path, "max_minutes", 1)
        avg_reliability ==
            IF path /= <<>>
            THEN (SumOver(path, "reliability_score", 1) * ReliabilityScale) \div Len(path)
            ELSE 0
        total_cost == 1000 * total_cost_percent + total_fixed_fee
    IN  [path |-> path,
         total_cost |-> total_cost,
         total_latency |-> total_min_latency + total_max_latency,
         reliability |-> avg_reliability,
         combined_score |-> 3 * total_cost
                            + 250 * (total_min_latency + total_max_latency)
                            + 250 * (10 * ReliabilityScale - avg_reliability),
         num_segments |-> Len(path)]

\* sorted(path_metrics, key=...): the indices of the list in the order of a
\* stable sort by the keys
StableOrder(keys) ==
    [k \in 1..Len(keys) |->
        CHOOSE i \in 1..Len(keys) :
            Cardinality({j \in 1..Len(keys) :
                           keys[j] < keys[i] \/ (keys[j] = keys[i] /\ j < i)}) = k - 1]
SortedBy(path_metrics, keys) ==
    [k \in 1..Len(path_metrics) |-> path_metrics[StableOrder(keys)[k]]]

\* a segment without an id
NoId == "None"

\* "path_id = tuple(seg.id for seg in path if seg.id)"
RECURSIVE PathId(_)
PathId(path) ==
    IF path = <<>> THEN <<>>
    ELSE (IF Head(path).id /= NoId THEN <<Head(path).id>> ELSE <<>>)
         \o PathId(Tail(path))

\* "Collect unique top paths": the paths of the orderings, each cut to
\* max_paths, in turn; one goes into the result when no path of its path_id
\* has, until the result holds max_paths
RECURSIVE CollectUnique(_, _, _, _, _)
CollectUnique(entries, k, seen_paths, result, max_paths) ==
    IF k > Len(entries) \/ Len(result) >= max_paths THEN result
    ELSE IF PathId(entries[k].path) \in seen_paths
    THEN CollectUnique(entries, k + 1, seen_paths, result, max_paths)
    ELSE CollectUnique(entries, k + 1, seen_paths \cup {PathId(entries[k].path)},
                       Append(result, entries[k]), max_paths)

\* path_list[:max_paths], all_paths[:max_candidates]
FirstOf(list, n) == SubSeq(list, 1, Min(n, Len(list)))

\* ORToolsSolver.solve_multi_objective and CPLEXSolver.solve_multi_objective
\* (the same code): the (path, metrics) candidates of a request
SolveMultiObjective(g, from_asset, to_asset, from_network, to_network, max_paths) ==
    LET paths == FindPaths(g, from_asset, to_asset, from_network, to_network,
                           DefaultMaxHops)
        path_metrics == [k \in 1..Len(paths) |-> CalculatePathMetrics(paths[k])]
        cost_sorted ==
            SortedBy(path_metrics, [k \in 1..Len(paths) |-> path_metrics[k].total_cost])
        latency_sorted ==
            SortedBy(path_metrics, [k \in 1..Len(paths) |-> path_metrics[k].total_latency])
        reliability_sorted ==
            SortedBy(path_metrics, [k \in 1..Len(paths) |-> -path_metrics[k].reliability])
        combined_sorted ==
            SortedBy(path_metrics, [k \in 1..Len(paths) |-> path_metrics[k].combined_score])
    IN  IF paths = <<>> THEN <<>>
        ELSE CollectUnique(FirstOf(cost_sorted, max_paths)
                           \o FirstOf(latency_sorted, max_paths)
                           \o FirstOf(reliability_sorted, max_paths)
                           \o FirstOf(combined_sorted, max_paths),
                           1, {}, <<>>, max_paths)

\* a service without the graph search behind its solvers
NoGraphSearch(paths, max_candidates) == <<>>

\* "If no candidates from solvers, use graph search": the candidates of the
\* paths of find_paths
GraphSearch(paths, max_candidates) ==
    LET first == FirstOf(paths, max_candidates)
    IN  [k \in 1..Len(first) |-> CalculatePathMetrics(first[k])]

\* find_optimal_route(segments, from_asset, to_asset, from_network,
\* to_network): the call that was made with what it did and returned.  A
\* backend raises or returns its candidates; CPLEX is asked only when the
\* service holds a CPLEX solver.
FindOptimalRoute(call, cplex_raises, ortools_raises) ==
    LET g == BuildGraph(call.segments)
        solved == SolveMultiObjective(g, call.from_asset, call.to_asset,
                                      call.from_network, call.to_network,
                                      DefaultMaxCandidates)
        cplex_candidates ==
            IF call.use_cplex /\ ~cplex_raises THEN solved ELSE <<>>
        ortools_candidates == IF ortools_raises THEN <<>> ELSE solved
        from_solvers == cplex_candidates \o ortools_candidates
        paths == FindPaths(g, call.from_asset, call.to_asset, call.from_network,
                           call.to_network, DefaultMaxHops)
        candidate_list ==
            IF from_solvers /= <<>> THEN from_solvers
            ELSE GraphSearch(paths, DefaultMaxCandidates)
        solver_used ==
            IF cplex_candidates /= <<>> /\ ortools_candidates /= <<>>
            THEN "CPLEX + OR-Tools"
            ELSE IF cplex_candidates /= <<>> THEN "CPLEX"
            ELSE IF ortools_candidates /= <<>> THEN "OR-Tools"
            ELSE "Graph Search"
        decision == SelectOptimalRoute(candidate_list)
        Returned(raised, error, optimal_path, score) ==
            [pc |-> "returned", segments |-> call.segments,
             from_asset |-> call.from_asset, to_asset |-> call.to_asset,
             from_network |-> call.from_network, to_network |-> call.to_network,
             use_cplex |-> call.use_cplex,
             cplex_raised |-> call.use_cplex /\ cplex_raises,
             ortools_raised |-> ortools_raises,
             paths |-> paths, candidates |-> candidate_list,
             raised |-> raised, error |-> error, route |-> optimal_path,
             num_segments |-> Len(optimal_path), solver_used |-> solver_used,
             score |-> score]
    IN  IF candidate_list = <<>>
        THEN Returned(FALSE, "No route found", <<>>, Quotient(0, 1))
        ELSE IF decision.raised
        THEN Returned(TRUE, "raised", <<>>, Quotient(0, 1))
        ELSE IF decision.optimal.metrics.path = <<>>
        THEN Returned(FALSE, "Failed to select optimal route", <<>>,
                      decision.optimal.score)
        ELSE Returned(FALSE, "None", decision.optimal.metrics.path,
                      decision.optimal.score)

\* reroute_execution has not been called
NoRerouteCall == [pc |-> "idle"]

\* nothing the orchestrator calls into is in use and no reroute is under way
LibraryIdle ==
    NoSettlement /\ NoSearch /\ NoDecision /\ reroute_call = NoRerouteCall

\* ------------------------------------------------------------------- Init

\* execute_route up to the call of _execute_sequential or _execute_parallel:
\* the record is created IN_PROGRESS / RUNNING and the route found is stored.
Init ==
    /\ parallel \in BOOLEAN
    /\ ai_rerouting \in BOOLEAN
    /\ iter_segments \in InitialRoutes
    /\ route_segments = iter_segments
    /\ route = iter_segments
    /\ total_segments = Len(iter_segments)
    /\ execution_state = "RUNNING"
    /\ status = "IN_PROGRESS"
    /\ current_segment = 0
    /\ exec_amount = RequestAmount
    /\ transaction_ids = {}
    /\ lock = "free"
    /\ waiters = <<>>
    /\ pc = IF parallel THEN "pstart" ELSE "check"
    /\ idx = 0
    /\ segment_executions = <<>>
    /\ current_amount = RequestAmount
    /\ parallel_groups = <<>>
    /\ group_idx = 0
    /\ running = {}
    /\ finished = {}
    /\ response = NoResponse
    /\ cancel_at = "none"
    /\ unguarded_write = FALSE
    /\ NoSegmentCall
    /\ wallets = EmptyLedger
    /\ ledger_call = NoCall
    /\ LibraryIdle

\* ----------------------------------------------- _execute_sequential

\* the dict the for statement binds to segment_dict at the current idx
SegmentDict == iter_segments[idx + 1]

\* route[current_segment:] as _should_reroute and _calculate_reroute read it
Remaining(r, from) == SubSeq(r, from + 1, Len(r))

\* What follows the state check of one iteration when the loop goes on to the
\* segment: the AI check suspends in _should_reroute (the segment source's
\* I/O) when it is enabled, this is not the first segment and the stored route
\* has segments left; otherwise the executor is entered at once.
AfterStateCheck ==
    IF ai_rerouting /\ idx > 0 /\ Remaining(route, idx) # <<>>
    THEN "should_reroute"
    ELSE "executing"

\* state CANCELLING at the boundary: return _handle_cancellation(...)
LoopCancelling ==
    /\ pc = "check" /\ idx < Len(iter_segments)
    /\ lock = "free" /\ waiters = <<>>
    /\ execution_state = "CANCELLING"
    /\ response' = HandleCancellation(segment_executions, RequestAmount)
    /\ pc' = "done"
    /\ UNCHANGED <<sim_vars, args, execution_state, exec_vars, transaction_ids, lock, waiters,
                   loop_vars, par_vars, cancel_at, unguarded_write>>

\* state PAUSED at the boundary: await _wait_for_resume inside "async with"
LoopPaused ==
    /\ pc = "check" /\ idx < Len(iter_segments)
    /\ lock = "free" /\ waiters = <<>>
    /\ execution_state = "PAUSED"
    /\ lock' = "loop"
    /\ pc' = "waiting"
    /\ UNCHANGED <<sim_vars, args, execution_state, exec_vars, transaction_ids, waiters,
                   loop_vars, par_vars, response, cancel_at, unguarded_write>>

\* state REROUTING at the boundary: await asyncio.sleep(0.1) inside "async with"
LoopRerouting ==
    /\ pc = "check" /\ idx < Len(iter_segments)
    /\ lock = "free" /\ waiters = <<>>
    /\ execution_state = "REROUTING"
    /\ lock' = "loop"
    /\ pc' = "reroute_sleep"
    /\ UNCHANGED <<sim_vars, args, execution_state, exec_vars, transaction_ids, waiters,
                   loop_vars, par_vars, response, cancel_at, unguarded_write>>

\* state RUNNING at the boundary: the lock is released and the loop goes on
LoopRunning ==
    /\ pc = "check" /\ idx < Len(iter_segments)
    /\ lock = "free" /\ waiters = <<>>
    /\ execution_state = "RUNNING"
    /\ pc' = AfterStateCheck
    /\ UNCHANGED <<sim_vars, args, execution_state, exec_vars, transaction_ids, lock, waiters,
                   loop_vars, par_vars, response, cancel_at, unguarded_write>>

\* _wait_for_resume: the state is still PAUSED, sleep 0.5 s and look again
WaitForResumeSleep ==
    /\ pc = "waiting"
    /\ execution_state = "PAUSED"
    /\ UNCHANGED vars

\* _wait_for_resume returns: the state is no longer PAUSED (it is not looked
\* at again); "async with" releases the lock and the loop goes on
WaitForResumeReturn ==
    /\ pc = "waiting"
    /\ execution_state # "PAUSED"
    /\ lock' = "free"
    /\ pc' = AfterStateCheck
    /\ UNCHANGED <<sim_vars, args, execution_state, exec_vars, transaction_ids, waiters,
                   loop_vars, par_vars, response, cancel_at, unguarded_write>>

\* the index the for statement binds after "continue" at index i
ContinueIndex(i) == i + 1

\* the sleep of the REROUTING branch ends: "continue" leaves "async with"
\* (the lock is released) and the for statement takes the next item
LoopReroutingContinue ==
    /\ pc = "reroute_sleep"
    /\ lock' = "free"
    /\ idx' = ContinueIndex(idx)
    /\ pc' = "check"
    /\ UNCHANGED <<sim_vars, args, execution_state, exec_vars, transaction_ids, waiters,
                   iter_segments, route_segments, segment_executions, current_amount,
                   par_vars, response, cancel_at, unguarded_write>>

\* _should_reroute returns after its I/O.  Its answer depends on the segment
\* source and the routing service, so both answers are possible; True leads
\* into _calculate_reroute, which returns None at once when the stored route
\* has no segment left and else suspends in the segment source's I/O.
LoopShouldReroute ==
    /\ pc = "should_reroute"
    /\ \E should_reroute \in BOOLEAN :
         pc' = IF should_reroute /\ Remaining(route, idx) # <<>>
               THEN "calc_reroute" ELSE "executing"
    /\ UNCHANGED <<sim_vars, args, execution_state, exec_vars, transaction_ids, lock, waiters,
                   loop_vars, par_vars, response, cancel_at, unguarded_write>>

\* _calculate_reroute returns None (no segments, no route, an error): the
\* segment at idx is executed
LoopCalcRerouteNone ==
    /\ pc = "calc_reroute"
    /\ pc' = "executing"
    /\ UNCHANGED <<sim_vars, args, execution_state, exec_vars, transaction_ids, lock, waiters,
                   loop_vars, par_vars, response, cancel_at, unguarded_write>>

\* _calculate_reroute returns a route: it has set REROUTING (state and status,
\* no lock held), the loop rebinds route_segments, stores the route and
\* "continue"s.  Nothing suspends before the next iteration's state check,
\* which reads the REROUTING just written: past the end of the iterated list
\* the loop ends and the response is built; with the lock free for the taking
\* the REROUTING branch sleeps holding it; behind queued callers the loop
\* queues for the lock.
LoopCalcRerouteInstall ==
    /\ pc = "calc_reroute"
    /\ \E new_route \in AltRoutes :
         /\ route_segments' = new_route
         /\ route' = new_route
         /\ total_segments' = Len(new_route)
         /\ execution_state' = "REROUTING"
         /\ status' = "REROUTING"
         /\ unguarded_write' = TRUE
         /\ idx' = ContinueIndex(idx)
         /\ IF idx' >= Len(iter_segments)
            THEN /\ response' = BuildResponse(new_route, segment_executions,
                                              current_amount, "REROUTING")
                 /\ pc' = "done"
                 /\ lock' = lock
            ELSE /\ response' = response
                 /\ IF waiters = <<>>
                    THEN lock' = "loop" /\ pc' = "reroute_sleep"
                    ELSE lock' = lock /\ pc' = "check"
    /\ UNCHANGED <<sim_vars, args, current_segment, exec_amount, transaction_ids, waiters,
                   iter_segments, segment_executions, current_amount, par_vars,
                   cancel_at>>

\* a loop that goes on after a FAILED result
BreaksLoopNever(result) == FALSE

\* "Check if segment failed": whether the loop breaks after this result
BreaksLoop(result) == result.status = "FAILED"

\* the executor returns: the result is recorded; a FAILED result marks the
\* record FAILED and breaks out of the loop into _build_response, any other
\* result becomes the current amount and the for statement takes the next item
LoopSegmentDone ==
    /\ pc = "executing"
    /\ \E ok \in BOOLEAN :
         LET result == ExecuteSegment(idx, SegmentDict, current_amount, ok)
             results == Append(segment_executions, result)
         IN  /\ segment_executions' = results
             /\ current_segment' = idx + 1
             /\ transaction_ids' = StoreTransactionId(transaction_ids, result)
             /\ IF BreaksLoop(result)
                THEN /\ status' = "FAILED"
                     /\ response' = BuildResponse(route_segments, results,
                                                  current_amount, execution_state)
                     /\ pc' = "done"
                     /\ UNCHANGED <<idx, current_amount, exec_amount>>
                ELSE /\ current_amount' = result.output_amount
                     /\ exec_amount' = result.output_amount
                     /\ idx' = idx + 1
                     /\ pc' = "check"
                     /\ UNCHANGED <<status, response>>
    /\ UNCHANGED <<sim_vars, args, execution_state, route, total_segments, lock, waiters,
                   iter_segments, route_segments, par_vars, cancel_at,
                   unguarded_write>>

\* the for statement is exhausted: return _build_response(...)
LoopFinish ==
    /\ pc = "check" /\ idx >= Len(iter_segments)
    /\ response' = BuildResponse(route_segments, segment_executions,
                                 current_amount, execution_state)
    /\ pc' = "done"
    /\ UNCHANGED <<sim_vars, args, execution_state, exec_vars, transaction_ids, lock, waiters,
                   loop_vars, par_vars, cancel_at, unguarded_write>>

\* ------------------------------------------------- _execute_parallel

\* the group size _group_parallel_segments allows
ParallelLimit == 3

\* "Segments that can run in parallel": the test that appends a segment to
\* the current group
JoinsCurrentGroup(segment, current_group) ==
    /\ segment.segment_type \in {"fx", "crypto"}
    /\ Len(current_group) < ParallelLimit

\* groups with the current group flushed into them ("if current_group:")
Flush(groups, current_group) ==
    IF current_group # <<>> THEN Append(groups, current_group) ELSE groups

\* the for statement of _group_parallel_segments from position i on; an item
\* of a group is the tuple (idx, segment)
RECURSIVE GroupFrom(_, _, _, _)
GroupFrom(segments, i, groups, current_group) ==
    IF i >= Len(segments)
    THEN Flush(groups, current_group)
    ELSE LET item == <<i, segments[i + 1]>>
         IN  IF JoinsCurrentGroup(segments[i + 1], current_group)
             THEN GroupFrom(segments, i + 1, groups, Append(current_group, item))
             ELSE GroupFrom(segments, i + 1, Flush(groups, current_group), <<item>>)

GroupParallelSegments(segments) == GroupFrom(segments, 0, <<>>, <<>>)

\* the group the for statement of _execute_parallel is at
Group == parallel_groups[group_idx + 1]

\* _execute_parallel starts: the route is grouped
ParallelStart ==
    /\ pc = "pstart"
    /\ parallel_groups' = GroupParallelSegments(route_segments)
    /\ group_idx' = 0
    /\ pc' = "pgroup"
    /\ UNCHANGED <<sim_vars, args, execution_state, exec_vars, transaction_ids, lock, waiters,
                   loop_vars, running, finished, response, cancel_at,
                   unguarded_write>>

\* one task per segment of the group is created, each with the current
\* amount, and asyncio.gather starts them all
ParallelDispatch ==
    /\ pc = "pgroup"
    /\ running' = {Group[k][1] : k \in 1..Len(Group)}
    /\ finished' = {}
    /\ pc' = "pgather"
    /\ UNCHANGED <<sim_vars, args, execution_state, exec_vars, transaction_ids, lock, waiters,
                   loop_vars, parallel_groups, group_idx, response, cancel_at,
                   unguarded_write>>

\* one gathered task returns from _execute_segment
ParallelSegmentDone ==
    /\ pc = "pgather"
    /\ \E seg_idx \in running, ok \in BOOLEAN :
         LET result == ExecuteSegment(seg_idx, route_segments[seg_idx + 1],
                                      current_amount, ok)
         IN  /\ finished' = finished \cup {result}
             /\ running' = running \ {seg_idx}
             /\ transaction_ids' = StoreTransactionId(transaction_ids, result)
    /\ UNCHANGED <<sim_vars, args, execution_state, exec_vars, lock, waiters, pc,
                   loop_vars, parallel_groups, group_idx, response, cancel_at,
                   unguarded_write>>

\* a gather that drops the results of the tasks that failed
GatherCompletedOnly(group, done) ==
    SelectSeq([k \in 1..Len(group) |-> CHOOSE r \in done : r.segment_index = group[k][1]],
              LAMBDA r : r.status = "COMPLETED")

\* the results of the group in the order of its tasks
GatherResults(group, done) ==
    [k \in 1..Len(group) |-> CHOOSE r \in done : r.segment_index = group[k][1]]

\* "Update amount (use max output for parallel segments)"
UpdateAmount(amount, result) ==
    IF result.output_amount > amount THEN result.output_amount ELSE amount

RECURSIVE ProcessResults(_, _)
ProcessResults(amount, results) ==
    IF results = <<>> THEN amount
    ELSE ProcessResults(UpdateAmount(amount, Head(results)), Tail(results))

\* asyncio.gather returns: the results are appended in task order, the amount
\* updated, the record's results and current_segment stored; after the last
\* group the response is built
ParallelJoin ==
    /\ pc = "pgather" /\ running = {}
    /\ LET results == segment_executions \o GatherResults(Group, finished)
           amount == ProcessResults(current_amount, GatherResults(Group, finished))
       IN  /\ segment_executions' = results
           /\ current_amount' = amount
           /\ current_segment' = Group[Len(Group)][1] + 1
           /\ group_idx' = group_idx + 1
           /\ finished' = {}
           /\ IF group_idx + 1 >= Len(parallel_groups)
              THEN /\ response' = BuildResponse(route_segments, results, amount,
                                                execution_state)
                   /\ pc' = "done"
              ELSE /\ response' = response
                   /\ pc' = "pgroup"
    /\ UNCHANGED <<sim_vars, args, execution_state, status, route, total_segments, exec_amount,
                   transaction_ids, lock, waiters, iter_segments, route_segments, idx,
                   parallel_groups, running, cancel_at, unguarded_write>>

\* ---------------------------------------------------- control operations

ControlOps == {"pause", "resume", "cancel"}

\* where the execution is: a segment executor is running, execute_route has
\* returned, or the execution is between two segments (or two groups)
Position ==
    CASE pc \in {"executing", "pgather"} -> "in_flight"
      [] pc = "done" -> "finished"
      [] OTHER -> "boundary"

\* The body of the "async with" of pause_execution, resume_execution and
\* cancel_execution: none suspends inside it, so it runs as one step with the
\* lock held throughout.
CriticalSection(op) ==
    CASE op = "pause" ->
           /\ execution_state' = "PAUSED"
           /\ status' = "PAUSED"
           /\ UNCHANGED cancel_at
      [] op = "resume" ->
           /\ IF execution_state = "PAUSED"
              THEN execution_state' = "RUNNING" /\ status' = "IN_PROGRESS"
              ELSE UNCHANGED <<execution_state, status>>
           /\ UNCHANGED cancel_at
      [] op = "cancel" ->
           /\ execution_state' = "CANCELLING"
           /\ status' = "CANCELLED"
           /\ cancel_at' = IF cancel_at = "none" THEN Position ELSE cancel_at

\* control operations that start the execution over
ControlRestarts ==
    /\ current_segment' = 0
    /\ exec_amount' = RequestAmount
    /\ UNCHANGED <<sim_vars, args, route, total_segments, transaction_ids, pc, loop_vars,
                   par_vars, response, unguarded_write>>

\* what pause_execution, resume_execution and cancel_execution leave alone:
\* they write the state and the status and nothing else of the execution
ControlFrame ==
    UNCHANGED <<sim_vars, args, route, total_segments, current_segment, exec_amount,
                transaction_ids, pc, loop_vars, par_vars, response,
                unguarded_write>>

\* a control operation is called with the lock free: asyncio.Lock.acquire
\* returns without suspending and the critical section runs
ControlCall ==
    /\ lock = "free" /\ waiters = <<>>
    /\ \E op \in ControlOps : CriticalSection(op)
    /\ ControlFrame
    /\ UNCHANGED <<lock, waiters>>

\* a control operation is called with the lock taken or others queued: it
\* suspends in acquire, at the end of the queue
ControlBlock ==
    /\ lock # "free" \/ waiters # <<>>
    /\ Len(waiters) < MaxWaiters
    /\ \E op \in ControlOps : waiters' = Append(waiters, op)
    /\ UNCHANGED <<sim_vars, args, execution_state, exec_vars, transaction_ids, lock, pc,
                   loop_vars, par_vars, response, cancel_at, unguarded_write>>

\* the lock is free and the first queued caller has been woken: it takes the
\* lock and runs its critical section
ControlGrant ==
    /\ lock = "free" /\ waiters # <<>>
    /\ CriticalSection(Head(waiters))
    /\ waiters' = Tail(waiters)
    /\ ControlFrame
    /\ UNCHANGED lock

\* reroute_execution(from_current_position = True), with a route found by
\* _calculate_reroute for the segments left from current_segment: REROUTING is
\* written to state and status, then the route is stored and the state set
\* back to RUNNING, without the lock.  (With no segment left, or no route
\* found, it returns an error and writes nothing.)
RerouteFromCurrent ==
    /\ Remaining(route, current_segment) # <<>>
    /\ \E new_route \in AltRoutes :
         /\ route' = new_route
         /\ total_segments' = Len(new_route)
    /\ status' = "REROUTING"
    /\ execution_state' = "RUNNING"
    /\ unguarded_write' = TRUE
    /\ UNCHANGED <<sim_vars, args, current_segment, exec_amount, transaction_ids, lock, waiters,
                   pc, loop_vars, par_vars, response, cancel_at>>

\* reroute_execution(from_current_position = False, new_route = ...)
RerouteProvided ==
    /\ \E new_route \in AltRoutes :
         /\ route' = new_route
         /\ total_segments' = Len(new_route)
    /\ execution_state' = "RUNNING"
    /\ unguarded_write' = TRUE
    /\ UNCHANGED <<sim_vars, args, status, current_segment, exec_amount, transaction_ids, lock,
                   waiters, pc, loop_vars, par_vars, response, cancel_at>>

\* ------------------------------------------------------- specification

Loop ==
    \/ LoopCancelling \/ LoopPaused \/ LoopRerouting \/ LoopRunning
    \/ WaitForResumeSleep \/ WaitForResumeReturn \/ LoopReroutingContinue
    \/ LoopShouldReroute \/ LoopCalcRerouteNone \/ LoopCalcRerouteInstall
    \/ LoopSegmentDone \/ LoopFinish

Parallel == ParallelStart \/ ParallelDispatch \/ ParallelSegmentDone \/ ParallelJoin

Control == ControlCall \/ ControlBlock \/ ControlGrant \/ RerouteFromCurrent \/ RerouteProvided

Next == Loop \/ Parallel \/ Control

Spec == Init /\ [][Next]_vars

\* The event loop runs every task that is ready: the execution's coroutine
\* takes its next step and a woken lock waiter takes the lock.  Nothing
\* obliges a client to call a control operation.
FairSpec == Spec /\ WF_vars(Loop) /\ WF_vars(Parallel) /\ WF_vars(ControlGrant)

\* ---------------------------------------------- execute_route from its call

\* what the segment source returns to an execution: a list of up to
\* MaxSourceSegments segments, or the list whose one route from USDC to USD
\* has three segments
MaxSourceSegments == 2
ThreeHops ==
    <<Seg("g", "bridge", "USDC", NoNetwork, "USDC", "poly"),
      Seg("d", "bridge", "USDC", "poly", "USDC", "eth"),
      Seg("f", "crypto", "USDC", "eth", "USD", NoNetwork)>>
SourceHoldings == SegmentLists(MaxSourceSegments) \cup {ThreeHops}

\* the dicts of the "route" of find_optimal_route's result
RouteDicts(path) == [k \in 1..Len(path) |-> SegmentOf(path[k].segment_type, "main")]

\* _get_optimal_route: "No route segments available" when the segment source
\* (its cache, then its database) holds no segment, else what
\* find_optimal_route returns
GetOptimalRoute(call, cplex_raises, ortools_raises) ==
    IF call.segments = <<>>
    THEN [raised |-> FALSE, error |-> "No route segments available", route |-> <<>>]
    ELSE FindOptimalRoute(call, cplex_raises, ortools_raises)

\* a response that reports the execution as completed
CompletedResponse(error_message) ==
    [status |-> "COMPLETED", route |-> <<>>, total_fees |-> 0, final_amount |-> 0,
     segment_executions |-> <<>>, error_message |-> error_message]

\* the response of execute_route's except branch
FailedResponse(error_message) ==
    [status |-> "FAILED", route |-> <<>>, total_fees |-> 0, final_amount |-> 0,
     segment_executions |-> <<>>, error_message |-> error_message]

\* execute_route up to its first await: the record is created IN_PROGRESS /
\* RUNNING with no route, and _get_optimal_route is awaited with what the
\* segment source holds
ExecuteInit ==
    /\ parallel \in BOOLEAN
    /\ ai_rerouting \in BOOLEAN
    /\ iter_segments = <<>>
    /\ route_segments = <<>>
    /\ route = <<>>
    /\ total_segments = 0
    /\ execution_state = "RUNNING"
    /\ status = "IN_PROGRESS"
    /\ current_segment = 0
    /\ exec_amount = RequestAmount
    /\ transaction_ids = {}
    /\ lock = "free"
    /\ waiters = <<>>
    /\ pc = "routing"
    /\ idx = 0
    /\ segment_executions = <<>>
    /\ current_amount = RequestAmount
    /\ parallel_groups = <<>>
    /\ group_idx = 0
    /\ running = {}
    /\ finished = {}
    /\ response = NoResponse
    /\ cancel_at = "none"
    /\ unguarded_write = FALSE
    /\ NoSegmentCall
    /\ wallets = EmptyLedger
    /\ ledger_call = NoCall
    /\ NoSettlement
    /\ NoDecision
    /\ NoGraph
    /\ routing \in [pc : {"called"}, segments : SourceHoldings,
                    from_asset : GraphAssets, to_asset : GraphAssets,
                    from_network : {"poly", NoNetwork},
                    to_network : {NoNetwork},
                    use_cplex : {FALSE}]
    /\ solving = NoSolving
    /\ reroute_call = NoRerouteCall

\* _get_optimal_route returns.  An error in its result is raised as
\* ValueError, and that or an exception of find_optimal_route ends in the
\* except branch: status FAILED and state RUNNING are written and the FAILED
\* response returned.  Else the route is stored and _execute_sequential or
\* _execute_parallel is called.
GetOptimalRouteReturns ==
    /\ pc = "routing"
    /\ \E ortools_raises \in BOOLEAN :
         \E route_result \in {GetOptimalRoute(routing, FALSE, ortools_raises)} :
         \E stored \in {RouteDicts(route_result.route)} :
             IF route_result.error /= "None"
             THEN /\ status' = "FAILED"
                  /\ execution_state' = "RUNNING"
                  /\ unguarded_write' = TRUE
                  /\ response' = FailedResponse(route_result.error)
                  /\ pc' = "done"
                  /\ UNCHANGED <<route, total_segments, iter_segments, route_segments>>
             ELSE /\ route' = stored
                  /\ total_segments' = Len(stored)
                  /\ iter_segments' = stored
                  /\ route_segments' = stored
                  /\ pc' = IF parallel THEN "pstart" ELSE "check"
                  /\ UNCHANGED <<status, execution_state, unguarded_write, response>>
    /\ routing' = NoRouting
    /\ UNCHANGED <<call_vars, wallets, ledger_call, settle_vars, decision_vars,
                   source_segments, graph, query, all_paths, search_pc, solving,
                   reroute_call, args, current_segment, exec_amount, transaction_ids, lock, waiters, idx,
                   segment_executions, current_amount, par_vars, cancel_at>>

ExecuteNext == GetOptimalRouteReturns \/ Next

\* an execution from the call of execute_route: the routing, then the loop
\* and the control operations
ExecuteSpec == ExecuteInit /\ [][ExecuteNext]_vars

\* ------------------------------------------------------ reroute_execution

\* a dict of a route as find_optimal_route formats it, with the keys
\* reroute_execution and _calculate_reroute read
RouteEntry(segment) ==
    [segment_type |-> segment.segment_type,
     from_asset |-> segment.from_asset, from_network |-> segment.from_network,
     to_asset |-> segment.to_asset, to_network |-> segment.to_network]
RouteEntries(path) == [k \in 1..Len(path) |-> RouteEntry(path[k])]

\* the routes an execution holds when reroute_execution is called: none yet,
\* one segment of the segment source, or the two segments from USDC on poly
\* to USD
TwoHops ==
    <<Seg("d", "bridge", "USDC", "poly", "USDC", "eth"),
      Seg("f", "crypto", "USDC", "eth", "USD", NoNetwork)>>
InstalledRoutes == {RouteEntries(r) : r \in SegmentLists(1) \cup {TwoHops}}

\* request.new_route: None or the empty list (both <<>>), or a route
ProvidedRoutes == {<<>>, RouteEntries(TwoHops)}

\* state and status of an execution that runs, is paused or is being
\* cancelled
ControlStates ==
    {<<"RUNNING", "IN_PROGRESS">>, <<"PAUSED", "PAUSED">>, <<"CANCELLING", "CANCELLED">>}

\* RouteExecutionRequest(from_asset=..., to_asset=..., amount=...): pydantic
\* validates amount: float = Field(gt=0) and raises ValidationError otherwise
ValidRequest(from_asset, to_asset, amount) == amount > 0

\* what reroute_execution returned
Rerouted(call, new_route) ==
    [pc |-> "returned", from_current_position |-> call.from_current_position,
     new_route |-> call.new_route, raised |-> FALSE, status |-> "rerouted",
     installed |-> new_route]
RerouteError(call) ==
    [pc |-> "returned", from_current_position |-> call.from_current_position,
     new_route |-> call.new_route, raised |-> FALSE, status |-> "error",
     installed |-> <<>>]
RerouteRaised(call) ==
    [pc |-> "returned", from_current_position |-> call.from_current_position,
     new_route |-> call.new_route, raised |-> TRUE, status |-> "raised",
     installed |-> <<>>]

\* reroute_execution is called on an execution that holds a route and stands
\* in or after one of its segments.  Its stored current amount is the
\* requested amount or, after a segment whose fees took all of it, 0.
RerouteInit ==
    /\ parallel = FALSE
    /\ ai_rerouting = FALSE
    /\ route \in InstalledRoutes
    /\ iter_segments = route
    /\ route_segments = route
    /\ total_segments = Len(route)
    /\ current_segment \in 0..Len(route)
    /\ idx = current_segment
    /\ \E control_state \in ControlStates :
         /\ execution_state = control_state[1]
         /\ status = control_state[2]
    /\ exec_amount \in (IF current_segment > 0 THEN {0} ELSE {}) \cup {RequestAmount}
    /\ current_amount = exec_amount
    /\ transaction_ids = {}
    /\ lock = "free"
    /\ waiters = <<>>
    /\ pc = IF current_segment < Len(route) THEN "executing" ELSE "done"
    /\ segment_executions = <<>>
    /\ parallel_groups = <<>>
    /\ group_idx = 0
    /\ running = {}
    /\ finished = {}
    /\ response = NoResponse
    /\ cancel_at = "none"
    /\ unguarded_write = FALSE
    /\ NoSegmentCall
    /\ wallets = EmptyLedger
    /\ ledger_call = NoCall
    /\ NoSettlement
    /\ NoSearch
    /\ NoDecision
    /\ reroute_call \in [pc : {"called"}, from_current_position : BOOLEAN,
                         new_route : ProvidedRoutes]

\* what no step of reroute_execution writes
RerouteFrame ==
    UNCHANGED <<call_vars, wallets, ledger_call, settle_vars, search_vars,
                decision_vars, args, current_segment, exec_amount, transaction_ids,
                lock, waiters, pc, loop_vars, par_vars, response, cancel_at>>

\* reroute_execution up to its first suspension.  With a provided route it
\* installs the route, sets RUNNING and returns, or returns the error when
\* none is provided.  From the current position it builds the
\* RouteExecutionRequest, which raises for an amount that is not positive,
\* and enters _calculate_reroute, which returns None at once when no segment
\* is left and else awaits the segment source.
RerouteCalled ==
    /\ reroute_call.pc = "called"
    /\ IF ~reroute_call.from_current_position
       THEN IF reroute_call.new_route /= <<>>
            THEN /\ route' = reroute_call.new_route
                 /\ total_segments' = Len(reroute_call.new_route)
                 /\ execution_state' = "RUNNING"
                 /\ unguarded_write' = TRUE
                 /\ reroute_call' = Rerouted(reroute_call, reroute_call.new_route)
            ELSE /\ reroute_call' = RerouteError(reroute_call)
                 /\ UNCHANGED <<route, total_segments, execution_state, unguarded_write>>
       ELSE LET from_asset == IF current_segment < Len(route)
                              THEN route[current_segment + 1].from_asset ELSE ""
                to_asset == IF route /= <<>> THEN route[Len(route)].to_asset ELSE ""
            IN  /\ reroute_call' =
                     IF ~ValidRequest(from_asset, to_asset, exec_amount)
                     THEN RerouteRaised(reroute_call)
                     ELSE IF Remaining(route, current_segment) = <<>>
                     THEN RerouteError(reroute_call)
                     ELSE [pc |-> "awaiting",
                           from_current_position |-> TRUE,
                           new_route |-> reroute_call.new_route,
                           current_asset |-> route[current_segment + 1].from_asset,
                           current_network |-> route[current_segment + 1].from_network,
                           to_asset |-> to_asset]
                /\ UNCHANGED <<route, total_segments, execution_state, unguarded_write>>
    /\ UNCHANGED status
    /\ RerouteFrame

\* the segment source answers _calculate_reroute.  Without segments, with an
\* error from find_optimal_route or an exception it returns None and
\* reroute_execution returns the error.  Else it writes REROUTING to state
\* and status and returns the route, which reroute_execution installs before
\* it sets the state RUNNING and returns.
RerouteSegmentsReturn ==
    /\ reroute_call.pc = "awaiting"
    /\ \E segments \in SourceHoldings, ortools_raises \in BOOLEAN :
         \E new_route_result \in
              {GetOptimalRoute([segments |-> segments,
                                from_asset |-> reroute_call.current_asset,
                                to_asset |-> reroute_call.to_asset,
                                from_network |-> reroute_call.current_network,
                                to_network |-> NoNetwork, use_cplex |-> FALSE],
                               FALSE, ortools_raises)} :
             IF new_route_result.error /= "None" \/ new_route_result.route = <<>>
             THEN /\ reroute_call' = RerouteError(reroute_call)
                  /\ UNCHANGED <<route, total_segments, execution_state, status,
                                 unguarded_write>>
             ELSE /\ status' = "REROUTING"
                  /\ route' = RouteEntries(new_route_result.route)
                  /\ total_segments' = Len(new_route_result.route)
                  /\ execution_state' = "RUNNING"
                  /\ unguarded_write' = TRUE
                  /\ reroute_call' = Rerouted(reroute_call,
                                              RouteEntries(new_route_result.route))
    /\ RerouteFrame

\* pause, resume and cancel are called while the reroute is under way
RerouteNext == RerouteCalled \/ RerouteSegmentsReturn \/ ControlCall

\* every call of reroute_execution on an execution, with the other control
\* operations at any time
RerouteSpec == RerouteInit /\ [][RerouteNext]_vars

\* ------------------------------------------- one call of _execute_segment

\* no execution is in progress in the service
NoExecution ==
    /\ parallel = FALSE
    /\ ai_rerouting = FALSE
    /\ execution_state = "RUNNING"
    /\ status = "IN_PROGRESS"
    /\ route = <<>>
    /\ total_segments = 0
    /\ current_segment = 0
    /\ exec_amount = 0
    /\ transaction_ids = {}
    /\ lock = "free"
    /\ waiters = <<>>
    /\ pc = "done"
    /\ iter_segments = <<>>
    /\ route_segments = <<>>
    /\ idx = 0
    /\ segment_executions = <<>>
    /\ current_amount = 0
    /\ parallel_groups = <<>>
    /\ group_idx = 0
    /\ running = {}
    /\ finished = {}
    /\ response = NoResponse
    /\ cancel_at = "none"
    /\ unguarded_write = FALSE

\* _execute_segment is called with a segment dict, an input amount and the
\* wallet address of the execution so far (None, or a wallet that may hold
\* the source asset)
ExecutorInit ==
    /\ NoExecution
    /\ LibraryIdle
    /\ segment_dict \in SegmentDicts
    /\ call_amount \in Inputs
    /\ wallet_address \in {"none", "w1"}
    /\ ex_pc = "called"
    /\ pending = NoResult
    /\ call_result = NoResult
    /\ wallets \in {EmptyLedger, SetBalance(EmptyLedger, "w1", FromAsset, HeldBalance)}
    /\ ledger_call = NoCall

\* The executor's code up to its first suspension has run, leaving the ledger
\* as given: if it raised, the except branch returns the FAILED result at
\* once; else the executor is suspended in its simulated settlement with the
\* result it will return.
ExecutorStarts(outcome, ledger, tx_hash) ==
    /\ ex_pc = "called"
    /\ wallets' = ledger
    /\ IF outcome.raised
       THEN /\ call_result' = ExceptBranch(segment_dict.segment_type, call_amount)
            /\ ex_pc' = "returned"
            /\ UNCHANGED pending
       ELSE /\ pending' = CompletedResult(segment_dict.segment_type, call_amount,
                                          outcome, tx_hash)
            /\ ex_pc' = "awaiting"
            /\ UNCHANGED call_result
    /\ UNCHANGED <<lib_vars, orch_vars, segment_dict, call_amount, wallet_address, ledger_call>>

\* The ledger after the start of an executor that debits the source asset:
\* the balance is ensured before the validation, the debit made after it.
DebitedLedger(outcome) ==
    LET ensured == EnsureBalance(wallets, Wallet, FromAsset, call_amount)
    IN  IF outcome.raised THEN ensured
        ELSE SubtractBalance(ensured, Wallet, FromAsset, call_amount)

FXStart ==
    /\ segment_dict.segment_type = "fx"
    /\ ExecutorStarts(FXExecutor(segment_dict, call_amount), wallets, FALSE)

CryptoStart ==
    /\ segment_dict.segment_type = "crypto"
    /\ LET outcome == CryptoExecutor(segment_dict, call_amount)
       IN  ExecutorStarts(outcome, DebitedLedger(outcome), TRUE)

BridgeStart ==
    /\ segment_dict.segment_type = "bridge"
    /\ LET outcome == BridgeExecutor(segment_dict, call_amount)
       IN  ExecutorStarts(outcome, DebitedLedger(outcome), TRUE)

\* RampExecutor: the off-ramp debits the wallet and creates a transaction,
\* the on-ramp does neither
RampStart ==
    /\ segment_dict.segment_type \in {"on_ramp", "off_ramp"}
    /\ LET outcome == RampExecutor(segment_dict, call_amount)
       IN  IF segment_dict.segment_type = "on_ramp"
           THEN ExecutorStarts(outcome, wallets, FALSE)
           ELSE ExecutorStarts(outcome, DebitedLedger(outcome), TRUE)

BankRailStart ==
    /\ segment_dict.segment_type = "bank_rail"
    /\ ExecutorStarts(BankRailExecutor(segment_dict, call_amount), wallets, FALSE)

\* the settlement of a crypto, bridge or on-ramp segment is over: the output
\* is credited to the wallet and the result returned
ExecutorCredit ==
    /\ ex_pc = "awaiting"
    /\ segment_dict.segment_type \in {"crypto", "bridge", "on_ramp"}
    /\ wallets' = AddBalance(wallets, Wallet, ToAsset, pending.output_amount)
    /\ call_result' = pending
    /\ ex_pc' = "returned"
    /\ UNCHANGED <<lib_vars, orch_vars, segment_dict, call_amount, wallet_address, pending,
                   ledger_call>>

\* the settlement of an FX, off-ramp or bank rail segment is over: the result
\* is returned
ExecutorReturn ==
    /\ ex_pc = "awaiting"
    /\ segment_dict.segment_type \in {"fx", "off_ramp", "bank_rail"}
    /\ call_result' = pending
    /\ ex_pc' = "returned"
    /\ UNCHANGED <<lib_vars, orch_vars, segment_dict, call_amount, wallet_address, pending,
                   wallets, ledger_call>>

\* SegmentType(...) raises for a type that is no member of the enum:
\* _execute_segment's except branch returns the FAILED result
SegmentInvalid ==
    /\ ex_pc = "called"
    /\ segment_dict.segment_type \notin SegmentTypeEnum
    /\ call_result' = ExceptBranch(segment_dict.segment_type, call_amount)
    /\ ex_pc' = "returned"
    /\ UNCHANGED <<lib_vars, orch_vars, segment_dict, call_amount, wallet_address, pending,
                   wallets, ledger_call>>

\* "if not executor": the segment is skipped
SegmentSkipped ==
    /\ ex_pc = "called"
    /\ segment_dict.segment_type \in SegmentTypeEnum \ ExecutorTypes
    /\ call_result' = SkippedResult(segment_dict.segment_type, call_amount)
    /\ ex_pc' = "returned"
    /\ UNCHANGED <<lib_vars, orch_vars, segment_dict, call_amount, wallet_address, pending,
                   wallets, ledger_call>>

ExecutorNext ==
    \/ FXStart \/ CryptoStart \/ BridgeStart \/ RampStart \/ BankRailStart
    \/ ExecutorCredit \/ ExecutorReturn \/ SegmentInvalid \/ SegmentSkipped

\* every way one segment can be executed
ExecutorSpec == ExecutorInit /\ [][ExecutorNext]_vars

\* ------------------------------------------------ the ledger's operations

\* the largest amount a ledger operation is called with, and the largest
\* balance the calls build up
MaxAmount == 3
MaxBalance == 3

LedgerInit ==
    /\ NoExecution
    /\ LibraryIdle
    /\ NoSegmentCall
    /\ wallets = EmptyLedger
    /\ ledger_call = NoCall

Called(op, wallet_id, asset, amount, returned) ==
    [op |-> op, wallet_id |-> wallet_id, asset |-> asset, amount |-> amount,
     returned |-> returned]

\* set_balance(wallet_id, asset, amount)
LedgerSet ==
    /\ \E wallet_id \in WalletIds, asset \in Assets, amount \in 0..MaxAmount :
         /\ amount <= MaxBalance
         /\ wallets' = SetBalance(wallets, wallet_id, asset, amount)
         /\ ledger_call' = Called("set", wallet_id, asset, amount, "None")
    /\ UNCHANGED <<lib_vars, orch_vars, call_vars>>

\* add_balance(wallet_id, asset, amount)
LedgerAdd ==
    /\ \E wallet_id \in WalletIds, asset \in Assets, amount \in 0..MaxAmount :
         /\ GetBalance(wallets, wallet_id, asset) + amount <= MaxBalance
         /\ wallets' = AddBalance(wallets, wallet_id, asset, amount)
         /\ ledger_call' = Called("add", wallet_id, asset, amount, "None")
    /\ UNCHANGED <<lib_vars, orch_vars, call_vars>>

\* subtract_balance(wallet_id, asset, amount)
LedgerSubtract ==
    /\ \E wallet_id \in WalletIds, asset \in Assets, amount \in 0..MaxAmount :
         /\ wallets' = SubtractBalance(wallets, wallet_id, asset, amount)
         /\ ledger_call' =
              Called("subtract", wallet_id, asset, amount,
                     IF SubtractSucceeds(wallets, wallet_id, asset, amount)
                     THEN "True" ELSE "False")
    /\ UNCHANGED <<lib_vars, orch_vars, call_vars>>

LedgerNext == LedgerSet \/ LedgerAdd \/ LedgerSubtract

\* every sequence of ledger operations with non-negative amounts
LedgerSpec == LedgerInit /\ [][LedgerNext]_vars

\* ------------------------------- a gathered group of segment executors

\* asyncio.gather has made a task of each _execute_segment call of the
\* group; the wallet is the one the groups before left, which may hold
\* balances
SettleInit ==
    /\ NoExecution
    /\ NoSegmentCall
    /\ ledger_call = NoCall
    /\ NoSearch
    /\ NoDecision
    /\ tasks = [t \in TaskIds |-> NoTask]
    /\ transactions = [t \in TaskIds |-> NoTransaction]
    /\ wallets \in {EmptyLedger,
                    SetBalance(EmptyLedger, GroupWallet, "USDC", HeldBalance)}
    /\ initial_wallets = wallets
    /\ settled = NothingSettled
    /\ reroute_call = NoRerouteCall

Add(count, asset, amount) == [count EXCEPT ![asset] = @ + amount]

\* Task t runs from its start to its first suspension.  The tasks start in
\* the order gather made them.  A debiting executor ensures the balance,
\* validates, debits and creates its transaction, then suspends in
\* simulate_confirmation's sleep with the block count drawn; the on-ramp
\* validates and suspends in its own sleep.  An executor whose validation
\* raises returns the FAILED result of its except branch at once.
TaskStart(t) ==
    /\ tasks[t].pc = "idle"
    /\ \A u \in 1..(t - 1) : tasks[u].pc /= "idle"
    /\ \E segment \in TaskSegments :
         LET outcome == TaskOutcome(segment, TaskAmount)
             balance == GetBalance(wallets, GroupWallet, segment.from_asset)
             ensured == IF Debits(segment)
                        THEN EnsureBalance(wallets, GroupWallet, segment.from_asset,
                                           TaskAmount)
                        ELSE wallets
             top_up == IF Debits(segment) /\ balance < TaskAmount
                       THEN TaskAmount - balance ELSE 0
             min_blocks == MinBlocks(segment, DefaultMinMinutes(segment))
             max_blocks == MaxBlocks(segment, DefaultMinMinutes(segment),
                                     DefaultMaxMinutes(segment))
         IN  IF outcome.raised
             THEN /\ wallets' = ensured
                  /\ settled' = [settled EXCEPT
                                   !.topped_up = Add(@, segment.from_asset, top_up)]
                  /\ tasks' = [tasks EXCEPT ![t] =
                                 [NoTask EXCEPT
                                    !.pc = "returned", !.segment = segment,
                                    !.result = ExceptBranch(segment.segment_type,
                                                            TaskAmount)]]
                  /\ UNCHANGED transactions
             ELSE IF Debits(segment)
             THEN /\ wallets' = SubtractBalance(ensured, GroupWallet,
                                                segment.from_asset, TaskAmount)
                  /\ settled' = [settled EXCEPT
                                   !.topped_up = Add(@, segment.from_asset, top_up),
                                   !.debited = Add(@, segment.from_asset, TaskAmount)]
                  /\ transactions' = [transactions EXCEPT ![t] = PendingTransaction]
                  /\ \E blocks \in BlocksToConfirm(min_blocks, max_blocks) :
                       tasks' = [tasks EXCEPT ![t] =
                                   [pc |-> "confirming", segment |-> segment,
                                    blocks_to_confirm |-> blocks,
                                    min_blocks |-> min_blocks,
                                    max_blocks |-> max_blocks,
                                    result |-> CompletedResult(segment.segment_type,
                                                 TaskAmount, outcome, TRUE)]]
             ELSE /\ tasks' = [tasks EXCEPT ![t] =
                                 [NoTask EXCEPT
                                    !.pc = "processing", !.segment = segment,
                                    !.result = CompletedResult(segment.segment_type,
                                                 TaskAmount, outcome, FALSE)]]
                  /\ UNCHANGED <<wallets, settled, transactions>>
    /\ UNCHANGED <<outside_settle, initial_wallets>>

\* the ledger and the credits after task t's executor resumes
Settle(t) ==
    LET segment == tasks[t].segment
        output_amount == tasks[t].result.output_amount
    IN  IF Credits(segment)
        THEN /\ wallets' = Credit(wallets, GroupWallet, segment.to_asset,
                                  output_amount)
             /\ settled' = [settled EXCEPT
                              !.credited = Add(@, segment.to_asset, output_amount)]
        ELSE UNCHANGED <<wallets, settled>>

\* simulate_confirmation's sleep is over: the transaction is marked
\* confirmed with the block count drawn, and the executor, resumed, credits
\* the output (the off-ramp credits nothing) and returns its result
TaskConfirmed(t) ==
    /\ tasks[t].pc = "confirming"
    /\ transactions' = [transactions EXCEPT
                          ![t] = ConfirmedTransaction(tasks[t].blocks_to_confirm)]
    /\ Settle(t)
    /\ tasks' = [tasks EXCEPT ![t].pc = "returned"]
    /\ UNCHANGED <<outside_settle, initial_wallets>>

\* the on-ramp's sleep is over: it credits the output and returns
TaskProcessed(t) ==
    /\ tasks[t].pc = "processing"
    /\ Settle(t)
    /\ tasks' = [tasks EXCEPT ![t].pc = "returned"]
    /\ UNCHANGED <<outside_settle, initial_wallets, transactions>>

SettleNext == \E t \in TaskIds : TaskStart(t) \/ TaskConfirmed(t) \/ TaskProcessed(t)

\* every interleaving of the executors of one group on one wallet
SettleSpec == SettleInit /\ [][SettleNext]_vars

\* --------------------------------------- building and searching a graph

\* a list of segments from the segment source is about to be built into a
\* graph
SearchInit ==
    /\ NoExecution
    /\ NoSegmentCall
    /\ wallets = EmptyLedger
    /\ ledger_call = NoCall
    /\ NoSettlement
    /\ NoDecision
    /\ source_segments \in SegmentLists(MaxSegments)
    /\ graph = EmptyGraph
    /\ query = NoQuery
    /\ all_paths = <<>>
    /\ search_pc = "idle"
    /\ routing = NoRouting
    /\ solving = NoSolving
    /\ reroute_call = NoRerouteCall

\* GraphBuilder.build_graph(segments)
BuildGraphCall ==
    /\ search_pc = "idle"
    /\ graph' = BuildGraph(source_segments)
    /\ search_pc' = "built"
    /\ UNCHANGED <<outside_search, source_segments, query, all_paths, routing, solving>>

\* graph.find_paths(from_asset, to_asset, from_network, to_network, max_hops)
FindPathsCall ==
    /\ search_pc = "built"
    /\ \E from_asset \in GraphAssets, to_asset \in GraphAssets,
          from_network \in Networks \cup {NoNetwork},
          to_network \in Networks \cup {NoNetwork}, max_hops \in -1..MaxHops :
         /\ query' = [from_asset |-> from_asset, to_asset |-> to_asset,
                      from_network |-> from_network, to_network |-> to_network,
                      max_hops |-> max_hops]
         /\ all_paths' = FindPaths(graph, from_asset, to_asset, from_network,
                                   to_network, max_hops)
    /\ search_pc' = "searched"
    /\ UNCHANGED <<outside_search, source_segments, graph, routing, solving>>

SearchNext == BuildGraphCall \/ FindPathsCall

\* every graph of the segment lists and every search of it
SearchSpec == SearchInit /\ [][SearchNext]_vars

\* ------------------------------------------ calls of the decision layer

\* a list of candidates, none to three, is handed to the decision layer
DecisionInit ==
    /\ NoExecution
    /\ NoSegmentCall
    /\ wallets = EmptyLedger
    /\ ledger_call = NoCall
    /\ NoSettlement
    /\ NoSearch
    /\ candidate_routes \in CandidateLists(MaxCandidates)
    /\ selected = NotCalled
    /\ ranked = NotCalled
    /\ reroute_call = NoRerouteCall

SelectCall ==
    /\ ~selected.called
    /\ selected' = SelectOptimalRoute(candidate_routes)
    /\ UNCHANGED <<outside_decision, candidate_routes, ranked>>

RankCall ==
    /\ ~ranked.called
    /\ \E top_k \in 0..(MaxCandidates + 1) :
         ranked' = RankRoutes(candidate_routes, top_k)
    /\ UNCHANGED <<outside_decision, candidate_routes, selected>>

DecisionNext == SelectCall \/ RankCall

\* select_optimal_route and rank_routes on every list of candidates
DecisionSpec == DecisionInit /\ [][DecisionNext]_vars

\* ------------------------------------------- calls of find_optimal_route

\* a routing service, with or without a CPLEX solver, is asked for the best
\* route of a request over a list of segments from the segment source
RoutingInit ==
    /\ NoExecution
    /\ NoSegmentCall
    /\ wallets = EmptyLedger
    /\ ledger_call = NoCall
    /\ NoSettlement
    /\ NoDecision
    /\ NoGraph
    /\ routing \in [pc : {"called"}, segments : SegmentLists(MaxSegments),
                    from_asset : GraphAssets, to_asset : GraphAssets,
                    from_network : Networks \cup {NoNetwork},
                    to_network : Networks \cup {NoNetwork},
                    use_cplex : BOOLEAN]
    /\ solving = NoSolving
    /\ reroute_call = NoRerouteCall

FindOptimalRouteCall ==
    /\ routing.pc = "called"
    /\ \E cplex_raises \in BOOLEAN, ortools_raises \in BOOLEAN :
         routing' = FindOptimalRoute(routing, cplex_raises, ortools_raises)
    /\ UNCHANGED <<outside_search, source_segments, graph, query, all_paths,
                   search_pc, solving>>

RoutingNext == FindOptimalRouteCall

\* every call of find_optimal_route and every failure of its backends
RoutingSpec == RoutingInit /\ [][RoutingNext]_vars

\* ------------------------------------------ calls of solve_multi_objective

\* largest max_paths a solver is called with
MaxPaths == 4

\* get_cached_segments: the segments as the clients built them and
\* cache_segments wrote them, none with an id (the rows get_segments_from_db
\* returns carry the id persist_segments gave them)
Cached(segments) == [k \in 1..Len(segments) |-> [segments[k] EXCEPT !.id = NoId]]

\* a solver is asked for the candidates of a request over the graph of what
\* the segment source returned, from its cache or from its database
SolveInit ==
    /\ NoExecution
    /\ NoSegmentCall
    /\ wallets = EmptyLedger
    /\ ledger_call = NoCall
    /\ NoSettlement
    /\ NoDecision
    /\ NoGraph
    /\ routing = NoRouting
    /\ \E from_db \in BOOLEAN :
         solving \in [pc : {"called"},
                      segments : {IF from_db THEN l ELSE Cached(l) :
                                    l \in SegmentLists(MaxSegments)},
                      from_asset : GraphAssets, to_asset : GraphAssets,
                      from_network : Networks \cup {NoNetwork},
                      to_network : {NoNetwork},
                      max_paths : 1..MaxPaths]
    /\ reroute_call = NoRerouteCall

\* solve_multi_objective(graph, from_asset, to_asset, from_network,
\* to_network, max_paths) returns its candidates; all_paths is what its
\* find_paths returned
SolveMultiObjectiveCall ==
    /\ solving.pc = "called"
    /\ \E g \in {BuildGraph(solving.segments)} :
         solving' =
           [pc |-> "returned", segments |-> solving.segments,
            from_asset |-> solving.from_asset, to_asset |-> solving.to_asset,
            from_network |-> solving.from_network,
            to_network |-> solving.to_network,
            max_paths |-> solving.max_paths,
            all_paths |-> FindPaths(g, solving.from_asset, solving.to_asset,
                                    solving.from_network, solving.to_network,
                                    DefaultMaxHops),
            result |-> SolveMultiObjective(g, solving.from_asset, solving.to_asset,
                                           solving.from_network, solving.to_network,
                                           solving.max_paths)]
    /\ UNCHANGED <<outside_search, source_segments, graph, query, all_paths,
                   search_pc, routing>>

SolveNext == SolveMultiObjectiveCall

\* every call of a solver over the graphs of the segment lists
SolveSpec == SolveInit /\ [][SolveNext]_vars

\* ------------------------------------------------------------- properties

Sequential == ~parallel

\* the loop is at the state check before a segment (sequential mode) or
\* before a group (parallel mode)
AtBoundary == pc \in {"check", "pgroup"}

\* C1: in sequential mode a loop that waits paused, with resume(id) called
\* since, eventually leaves the wait (and resume returns): no deadlock and
\* no missed wake-up.
C1_PausedLoopResumes ==
    (Sequential /\ pc = "waiting" /\ waiters # <<>> /\ Head(waiters) = "resume")
        ~> (pc # "waiting")

C3_LockFreeWhileBlocked ==
    pc \in {"executing", "pgather", "waiting"} => lock = "free"

\* C4: once cancel(id) has been requested on a running execution, the loop
\* does not go past the next segment boundary (sequential mode) or group
\* boundary (parallel mode): no further segment is dispatched from there.
C4_NoDispatchAfterCancel ==
    [][(cancel_at \in {"boundary", "in_flight"} /\ AtBoundary)
         => pc' \notin {"executing", "should_reroute", "pgather"}]_vars

\* C5: in sequential mode a FAILED segment result is the last result
\* recorded, no segment with a larger index has a result, and the execution
\* has returned with status FAILED.
C5_FailedSegmentStops ==
    Sequential =>
      \A i \in 1..Len(segment_executions) :
        segment_executions[i].status = "FAILED" =>
          /\ i = Len(segment_executions)
          /\ \A j \in 1..Len(segment_executions) :
               segment_executions[j].segment_index <= segment_executions[i].segment_index
          /\ pc = "done"
          /\ response.status = "FAILED"
          /\ response.segment_executions = segment_executions

\* C5's case: a sequential execution has returned after a segment failed
\* with segments of the route still to come
C5_Witness ==
    /\ Sequential /\ pc = "done"
    /\ AnyFailed(segment_executions)
    /\ Len(segment_executions) >= 2
    /\ Len(segment_executions) < Len(iter_segments)

\* C6: when execute returns, the status get_execution_status reports is
\* COMPLETED, FAILED or CANCELLED and is the status of the returned result:
\* it is not left at IN_PROGRESS, PAUSED or REROUTING.
C6_StoredStatusIsFinal ==
    [][(pc # "done" /\ pc' = "done")
         => /\ status' \in {"COMPLETED", "FAILED", "CANCELLED"}
            /\ status' = response'.status]_vars

\* C7: every write to the control state or to the active route is made with
\* the execution's lock held.
C7_WritesUnderLock == ~unguarded_write

\* C8: when the AI re-route step installs a new route, no segment is
\* executed in that tick and the loop continues at the same index.
C8_AiRerouteKeepsIndex ==
    [][(pc = "calc_reroute" /\ execution_state' = "REROUTING"
          /\ execution_state # "REROUTING")
         => (idx' = idx /\ segment_executions' = segment_executions)]_vars

\* C9: the loop that reads REROUTING before segment i skips the tick and
\* retries: its index does not advance.
C9_ReroutingTickRetries ==
    [][(pc = "reroute_sleep" /\ pc' # "reroute_sleep") => idx' = idx]_vars

\* C10: every group of the parallel grouping with more than one segment
\* holds only FX or CRYPTO segments: a segment of another type is alone.
C10_OtherTypesRunAlone ==
    \A g \in 1..Len(parallel_groups) :
      Len(parallel_groups[g]) > 1 =>
        \A k \in 1..Len(parallel_groups[g]) :
          parallel_groups[g][k][2].segment_type \in {"fx", "crypto"}

\* C11: in parallel mode the join of a run leaves as current amount the
\* largest output amount among the run's results, and the final amount
\* returned after the last run is that amount (stated for the runs whose
\* segments all completed).
C11_JoinTakesMaxOutput ==
    [][(pc = "pgather" /\ pc' # "pgather" /\ ~AnyFailed(GatherResults(Group, finished)))
         => /\ \E r \in finished : current_amount' = r.output_amount
            /\ \A r \in finished : r.output_amount <= current_amount'
            /\ pc' = "done" => response'.final_amount = current_amount']_vars

\* the segment indices of a group
GroupIndices(group) == {group[k][1] : k \in 1..Len(group)}

\* the number of recorded results with segment index i
RecordedFor(i) ==
    Cardinality({n \in 1..Len(segment_executions) :
                   segment_executions[n].segment_index = i})

\* the groups joined so far
JoinedGroups == 1..(IF pc = "pstart" THEN 0 ELSE group_idx)

\* C12: in parallel mode every segment of a run that was dispatched and
\* joined has exactly one recorded result, whatever its siblings returned;
\* while a run is gathered each of its segments is running or has returned
\* one result; a run is dispatched only when no task of the run before it is
\* still running, and joined only when each of its segments has returned.
C12_EveryBranchRecorded ==
    /\ [](parallel =>
            /\ \A g \in JoinedGroups :
                 \A i \in GroupIndices(parallel_groups[g]) : RecordedFor(i) = 1
            /\ pc = "pgather" =>
                 /\ running \cup {r.segment_index : r \in finished} = GroupIndices(Group)
                 /\ running \cap {r.segment_index : r \in finished} = {}
                 /\ Cardinality(finished) + Cardinality(running) = Len(Group)
                 /\ \A i \in GroupIndices(Group) : RecordedFor(i) = 0)
    /\ [][(pc # "pgather" /\ pc' = "pgather") => running = {}]_vars
    /\ [][(pc = "pgather" /\ pc' # "pgather")
            => /\ running = {}
               /\ {r.segment_index : r \in finished} = GroupIndices(Group)]_vars

\* C12's case: a run of two segments has been joined with one segment FAILED
\* and its sibling COMPLETED, and the next run is being gathered
C12_Witness ==
    /\ parallel /\ pc = "pgather" /\ group_idx >= 1
    /\ Len(parallel_groups[1]) >= 2
    /\ \E n, m \in 1..Len(segment_executions) :
         /\ segment_executions[n].segment_index \in GroupIndices(parallel_groups[1])
         /\ segment_executions[m].segment_index \in GroupIndices(parallel_groups[1])
         /\ segment_executions[n].status = "FAILED"
         /\ segment_executions[m].status = "COMPLETED"

\* C13: resume(id) succeeds, setting RUNNING, exactly when the state it finds
\* is PAUSED, and pause(id) followed by resume(id) both succeed: a resume
\* called on an execution that pause has left PAUSED gets to run on that
\* PAUSED state, so it is never queued on the lock while the lock's holder
\* waits for the state to stop being PAUSED.
C13_ResumeAfterPauseSucceeds ==
    (waiters # <<>> /\ Head(waiters) = "resume" /\ execution_state = "PAUSED")
        => pc # "waiting"

\* what pause and resume are to leave alone: current segment index, current
\* amount, active route, recorded results, recorded transaction ids
Progress ==
    <<current_segment, exec_amount, current_amount, idx, route, route_segments,
      segment_executions, transaction_ids>>

\* C14: pause(id) followed by resume(id) with no segment executing in
\* between leaves the current segment index, the current amount, the active
\* route, the recorded results and the recorded transaction ids unchanged:
\* the step of pause, the step of a resume that succeeds, and the loop's
\* return from the pause wait each leave them as they are.
C14_PauseResumeFrame ==
    /\ [][(execution_state # "PAUSED" /\ execution_state' = "PAUSED")
            => UNCHANGED Progress]_vars
    /\ [][(status = "PAUSED" /\ status' = "IN_PROGRESS")
            => UNCHANGED Progress]_vars
    /\ [][(pc = "waiting" /\ pc' # "waiting") => UNCHANGED Progress]_vars

\* C14's case: a resume has succeeded (only resume writes IN_PROGRESS, and
\* only over the PAUSED that a pause wrote after the cancel) on an execution
\* with a result, a transaction id and segments still to run
C14_Witness ==
    /\ cancel_at # "none" /\ status = "IN_PROGRESS" /\ execution_state = "RUNNING"
    /\ segment_executions # <<>> /\ transaction_ids # {}
    /\ current_segment > 0 /\ current_segment < total_segments
    /\ pc # "done"

\* C15: the returned result is FAILED exactly when a recorded segment result
\* is FAILED; with none FAILED it is CANCELLED when cancel(id) was requested
\* before the execution finished and COMPLETED when it was not; its total
\* fees are the sum of the fees of the recorded results.
C15_ReturnedStatus ==
    pc = "done" =>
      /\ response.status = "FAILED" <=> AnyFailed(segment_executions)
      /\ ~AnyFailed(segment_executions) =>
           response.status = IF cancel_at \in {"boundary", "in_flight"}
                             THEN "CANCELLED" ELSE "COMPLETED"
      /\ response.total_fees = SumFees(segment_executions)

\* the positions of the COMPLETED results among the recorded ones
CompletedAt == {n \in 1..Len(segment_executions) :
                  segment_executions[n].status = "COMPLETED"}

\* C16: in sequential mode the first executed segment receives the requested
\* amount and every later one exactly the output amount of the segment
\* executed immediately before it; the returned final amount is the output
\* of the last completed segment (the requested amount when none completed).
C16_AmountsChain ==
    Sequential =>
      /\ \A n \in 1..Len(segment_executions) :
           segment_executions[n].input_amount =
             IF n = 1 THEN RequestAmount
             ELSE segment_executions[n - 1].output_amount
      /\ pc = "done" =>
           response.final_amount =
             IF CompletedAt = {} THEN RequestAmount
             ELSE segment_executions[CHOOSE n \in CompletedAt :
                                       \A m \in CompletedAt : m <= n].output_amount

\* C16's case: a sequential execution has returned after three or more
\* segments ran, the last of them FAILED, so that the final amount is the
\* output of an earlier segment
C16_Witness ==
    /\ Sequential /\ pc = "done"
    /\ Len(segment_executions) >= 3
    /\ segment_executions[Len(segment_executions)].status = "FAILED"
    /\ response.final_amount = segment_executions[Len(segment_executions) - 1].output_amount
    /\ response.final_amount # RequestAmount

\* the rate of the executed segment: effective_fx_rate, 1.0 when absent
CallRate == DictGet(segment_dict.cost, "effective_fx_rate", 1)

\* C17: for every executor type, an input amount >= 0 and a rate > 0, a
\* COMPLETED simulated result has fees = input * clamp(fee_percent, 0, 100)
\* / 100 + max(fixed_fee, 0) and output = max(0, input - fees) * rate, so
\* that neither is negative.
C17_FeeLaw ==
    LET fee_percent == DictGet(segment_dict.cost, "fee_percent", 0).value
        fixed_fee == DictGet(segment_dict.cost, "fixed_fee", 0).value
        fees == PercentOf(call_amount, ClampPercent(fee_percent)) + Max(fixed_fee, 0)
        output == Max(0, call_amount - fees) * CallRate.value
    IN  (/\ call_result.status = "COMPLETED"
         /\ call_amount >= 0
         /\ CallRate.kind = "num" /\ CallRate.value > 0)
          => /\ call_result.fees_paid = fees
             /\ call_result.output_amount = output
             /\ call_result.fees_paid >= 0
             /\ call_result.output_amount >= 0

\* C18: every executor returns a FAILED result, never a COMPLETED one, when
\* the segment's rate is <= 0 or the input amount is negative.
C18_RejectsBadRateOrInput ==
    (/\ ex_pc = "returned"
     /\ segment_dict.segment_type \in ExecutorTypes
     /\ \/ CallRate.kind = "num" /\ CallRate.value <= 0
        \/ call_amount < 0)
      => call_result.status = "FAILED"

\* C19: for every segment type and input (empty cost or latency map, zero
\* amount, an error raised in the simulator) the executor returns a
\* COMPLETED or FAILED result and never raises; a FAILED result has output
\* amount 0 and fees 0; _execute_segment turns the error of a segment type
\* that does not exist into a FAILED result too.
C19_NeverRaises ==
    /\ ex_pc = "awaiting" => pending.status = "COMPLETED"
    /\ ex_pc = "returned" =>
         /\ call_result.status \in {"COMPLETED", "FAILED", "SKIPPED"}
         /\ segment_dict.segment_type \in ExecutorTypes
              => call_result.status \in {"COMPLETED", "FAILED"}
         /\ segment_dict.segment_type \notin SegmentTypeEnum
              => call_result.status = "FAILED"
         /\ call_result.status = "FAILED"
              => call_result.output_amount = 0 /\ call_result.fees_paid = 0

\* C19's case: an FX segment with empty cost map and zero amount has FAILED
\* on the error raised in simulate_fx_conversion
C19_Witness ==
    /\ ex_pc = "returned"
    /\ segment_dict.segment_type = "fx"
    /\ \A k \in DOMAIN segment_dict.cost : segment_dict.cost[k] = Absent
    /\ call_amount = 0
    /\ call_result.status = "FAILED"

\* every balance of the ledger is >= 0
NoNegativeBalance ==
    \A wallet_id \in WalletIds, asset \in Assets :
      GetBalance(wallets, wallet_id, asset) >= 0

\* C20: subtract_balance called with an amount above the balance returns
\* False and leaves every balance as it is; otherwise it returns True and
\* takes exactly the amount off exactly that balance; after any sequence of
\* ledger operations with non-negative amounts every balance is >= 0.
C20_SubtractNeverNegative ==
    /\ [][ledger_call'.op = "subtract" =>
            LET call == ledger_call'
                current == GetBalance(wallets, call.wallet_id, call.asset)
            IN  IF call.amount > current
                THEN call.returned = "False" /\ wallets' = wallets
                ELSE /\ call.returned = "True"
                     /\ wallets' = [wallets EXCEPT ![call.wallet_id][call.asset] =
                                                     current - call.amount]]_vars
    /\ []NoNegativeBalance

\* C20's case: a subtraction above a positive balance has been refused while
\* another balance of the ledger is positive too
C20_Witness ==
    /\ ledger_call.op = "subtract" /\ ledger_call.returned = "False"
    /\ GetBalance(wallets, ledger_call.wallet_id, ledger_call.asset) > 0
    /\ ledger_call.amount > GetBalance(wallets, ledger_call.wallet_id, ledger_call.asset)
    /\ \E wallet_id \in WalletIds, asset \in Assets :
         /\ <<wallet_id, asset>> # <<ledger_call.wallet_id, ledger_call.asset>>
         /\ GetBalance(wallets, wallet_id, asset) > 0

\* the tasks of the group that have returned COMPLETED after crediting asset
CreditedBy(asset) ==
    {t \in TaskIds : /\ tasks[t].pc = "returned"
                     /\ tasks[t].result.status = "COMPLETED"
                     /\ Credits(tasks[t].segment)
                     /\ tasks[t].segment.to_asset = asset}

RECURSIVE SumOutputs(_)
SumOutputs(T) ==
    IF T = {} THEN 0
    ELSE LET t == CHOOSE u \in T : TRUE
         IN  tasks[t].result.output_amount + SumOutputs(T \ {t})

AllReturned == \A t \in TaskIds : tasks[t].pc = "returned"

Created == {t \in TaskIds : transactions[t].status /= "none"}

\* C22: a transaction is pending, with no confirmation, from its creation
\* until simulate_confirmation for it is over, and confirmed ever after with
\* the same count, which lies within [min_blocks, max_blocks]; an executor
\* that made a transaction credits its output only in a step that leaves the
\* transaction confirmed; every COMPLETED result carrying a transaction hash
\* refers to a confirmed transaction.
C22_PendingThenConfirmed ==
    /\ [](\A t \in TaskIds :
            /\ tasks[t].pc = "confirming" => transactions[t] = PendingTransaction
            /\ transactions[t].status = "pending" => transactions[t].confirmations = 0
            /\ transactions[t].status = "confirmed" =>
                 /\ transactions[t].confirmations >= tasks[t].min_blocks
                 /\ transactions[t].confirmations <= tasks[t].max_blocks
            /\ (/\ tasks[t].pc = "returned"
                /\ tasks[t].result.status = "COMPLETED"
                /\ tasks[t].result.transaction_hash) =>
                 transactions[t].status = "confirmed")
    /\ [][\A t \in TaskIds :
            /\ transactions[t].status = "confirmed" => transactions'[t] = transactions[t]
            /\ (transactions[t].status = "pending" /\ transactions'[t] /= transactions[t])
                 => /\ tasks[t].pc = "confirming"
                    /\ transactions'[t].status = "confirmed"
            /\ (/\ t \in Created
                /\ tasks[t].pc /= "returned"
                /\ tasks'[t].pc = "returned"
                /\ wallets' /= wallets)
                 => transactions'[t].status = "confirmed"]_vars

\* an executor has returned COMPLETED with its transaction confirmed after a
\* block count strictly inside its window, and has credited its output,
\* while the transaction of another executor is still pending
C22_Witness ==
    \E t, u \in TaskIds :
        /\ tasks[t].pc = "returned"
        /\ tasks[t].result.status = "COMPLETED"
        /\ tasks[t].result.transaction_hash
        /\ transactions[t].confirmations > tasks[t].min_blocks
        /\ transactions[t].confirmations < tasks[t].max_blocks
        /\ settled.credited[tasks[t].segment.to_asset] > 0
        /\ transactions[u].status = "pending"

\* the nodes a path visits: the source node of its first segment, then the
\* destination node of each segment
PathNodes(path) ==
    IF path = <<>> THEN <<>>
    ELSE <<FromNode(path[1])>> \o [k \in 1..Len(path) |-> ToNode(path[k])]

Distinct(nodes) ==
    \A j, k \in 1..Len(nodes) : j /= k => nodes[j] /= nodes[k]

Searched == search_pc = "searched"

\* C25: every path find_paths returns visits no node twice (among the source
\* node of its first segment and the destination nodes of its segments) and
\* has at most max_hops segments.
C25_DistinctNodesWithinHops ==
    Searched =>
        \A k \in 1..Len(all_paths) :
            /\ Distinct(PathNodes(all_paths[k]))
            /\ Len(all_paths[k]) <= query.max_hops

\* a search of a graph with a cycle between two nodes has returned a path as
\* long as max_hops allows, of two segments or more
C25_Witness ==
    /\ Searched
    /\ \E k \in 1..Len(all_paths) :
         /\ Len(all_paths[k]) = query.max_hops
         /\ Len(all_paths[k]) >= 2
    /\ \E m, n \in graph.nodes :
         /\ m /= n
         /\ \E i, j \in 1..Len(graph.segments) :
              /\ FromNode(graph.segments[i]) = m /\ ToNode(graph.segments[i]) = n
              /\ FromNode(graph.segments[j]) = n /\ ToNode(graph.segments[j]) = m
         /\ m = FromNode(all_paths[1][1])

\* C26: every path find_paths returns is non-empty and a walk: its first
\* segment leaves one of the start nodes of the request, each later segment
\* leaves the node the segment before it enters, and the last segment enters
\* a node that matches the requested destination.
C26_NonEmptyWalk ==
    Searched =>
        \A k \in 1..Len(all_paths) :
            LET path == all_paths[k]
                start_nodes == StartNodes(query.from_asset, query.from_network)
                end_nodes == EndNodes(query.to_asset, query.to_network)
            IN  /\ path /= <<>>
                /\ \E s \in 1..Len(start_nodes) : FromNode(path[1]) = start_nodes[s]
                /\ \A j \in 2..Len(path) : FromNode(path[j]) = ToNode(path[j - 1])
                /\ ReachedDestination(ToNode(path[Len(path)]), end_nodes)

\* one entry of the graph: segment s is filed under node n with neighbour m
Filed(n, m, s) ==
    /\ n \in DOMAIN graph.graph
    /\ \E k \in 1..Len(graph.graph[n]) :
         /\ graph.graph[n][k].neighbor = m
         /\ \E i \in 1..Len(graph.graph[n][k].segments_list) :
              graph.graph[n][k].segments_list[i] = s

\* C27: for every segment of a built graph, the node it is filed under and
\* the neighbour it is filed with are the asset alone when its type is FX or
\* BANK_RAIL, whatever its networks, and else asset@network when the
\* network is present and the asset alone when it is not; the next node the
\* path finder computes for the segment is the neighbour the builder filed
\* it with, and both nodes are nodes of the graph.
C27_NodeIdentity ==
    search_pc /= "idle" =>
        \A i \in 1..Len(source_segments) :
            LET s == source_segments[i]
                n == IF s.segment_type \in {"fx", "bank_rail"} THEN <<s.from_asset>>
                     ELSE IF s.from_network /= NoNetwork
                          THEN <<s.from_asset, s.from_network>>
                          ELSE <<s.from_asset>>
                m == IF s.segment_type \in {"fx", "bank_rail"} THEN <<s.to_asset>>
                     ELSE IF s.to_network /= NoNetwork
                          THEN <<s.to_asset, s.to_network>>
                          ELSE <<s.to_asset>>
            IN  /\ Filed(n, m, s)
                /\ \A x \in DOMAIN graph.graph, y \in graph.nodes :
                     Filed(x, y, s) => x = n /\ y = m
                /\ NextNode(s) = m
                /\ {n, m} \subseteq graph.nodes

\* a graph has been built from a bank rail segment that names networks, a
\* bridge between two networks and a segment without a destination network
C27_Witness ==
    /\ search_pc = "built"
    /\ \E i, j, k \in 1..Len(source_segments) :
         /\ source_segments[i].segment_type = "bank_rail"
         /\ source_segments[i].from_network /= NoNetwork
         /\ source_segments[j].segment_type = "bridge"
         /\ source_segments[k].segment_type = "crypto"
         /\ source_segments[k].to_network = NoNetwork

\* a quotient within [0, 1]
InUnitInterval(q) == q.den > 0 /\ 0 <= q.num /\ q.num <= q.den

\* the values a metric takes across the candidates are all the same
AllSame(key) ==
    \A j, k \in 1..Len(candidate_routes) :
        candidate_routes[j][key] = candidate_routes[k][key]

\* C28: for a non-empty list of candidates, select_optimal_route returns a
\* candidate of the list whose score is at most the score of every candidate
\* of the same normalization pass; rank_routes returns min(top_k, n)
\* different candidates of the list in non-decreasing order of score, and
\* the first of them has the score of select_optimal_route's result.
C28_ArgMinAndRank ==
    candidate_routes /= <<>> =>
        /\ (selected.called =>
              /\ ~selected.raised
              /\ selected.optimal.index \in 1..Len(candidate_routes)
              /\ selected.optimal = selected.normalized[selected.optimal.index]
              /\ selected.optimal.metrics = candidate_routes[selected.optimal.index]
              /\ \A k \in 1..Len(selected.normalized) :
                   LessOrEqual(selected.optimal.score, selected.normalized[k].score))
        /\ (ranked.called =>
              /\ ~ranked.raised
              /\ Len(ranked.routes) = Min(ranked.top_k, Len(candidate_routes))
              /\ \A k \in 1..Len(ranked.routes) :
                   /\ ranked.routes[k] = ranked.normalized[ranked.routes[k].index]
                   /\ ranked.routes[k].metrics = candidate_routes[ranked.routes[k].index]
              /\ \A j, k \in 1..Len(ranked.routes) :
                   /\ j /= k => ranked.routes[j].index /= ranked.routes[k].index
                   /\ j < k => LessOrEqual(ranked.routes[j].score, ranked.routes[k].score)
              /\ (selected.called /\ ranked.routes /= <<>>) =>
                   Equal(ranked.routes[1].score, selected.optimal.score))

\* both have been called on three candidates of different scores, the best
\* of them not the first of the list, and rank_routes has cut the list to two
C28_Witness ==
    /\ Len(candidate_routes) = 3
    /\ selected.called /\ ranked.called
    /\ selected.optimal.index /= 1
    /\ ranked.top_k = 2
    /\ Len(ranked.routes) = 2
    /\ ~Equal(ranked.routes[1].score, ranked.routes[2].score)
    /\ ranked.routes[1].index > ranked.routes[2].index

\* the normalization pass of a call that returned
PassOf(call) == IF call.called /\ ~call.raised THEN call.normalized ELSE <<>>

\* C29: on every list of candidates, the empty one and those whose
\* candidates share a cost, a latency or a reliability included,
\* select_optimal_route and rank_routes do not raise (no division by zero);
\* every normalized component of every candidate lies in [0, 1]; and a
\* component whose maximum equals its minimum across the candidates enters
\* every candidate's score with the normalized value 0.
C29_SafeNormalization ==
    \A call \in {selected, ranked} :
        /\ ~call.raised
        /\ \A k \in 1..Len(PassOf(call)) :
             LET n == PassOf(call)[k]
             IN  /\ InUnitInterval(n.norm_cost)
                 /\ InUnitInterval(n.norm_latency)
                 /\ InUnitInterval(n.norm_reliability)
                 /\ AllSame("total_cost") => n.norm_cost.num = 0
                 /\ AllSame("total_latency") => n.norm_latency.num = 0
                 /\ AllSame("reliability") => n.norm_reliability.num = 0

Routed == routing.pc = "returned"

\* find_paths found a path of at least one segment for the request
SomeNonEmptyPath(call) == \E k \in 1..Len(call.paths) : call.paths[k] /= <<>>

\* C24: find_optimal_route returns a route, not an error and not an
\* exception, whenever find_paths yields a path of at least one segment for
\* the request, whichever of the backends raise; it returns the error "No
\* route found" only when find_paths yields no path.
C24_DegradesToSearch ==
    Routed =>
        /\ SomeNonEmptyPath(routing) =>
             /\ ~routing.raised
             /\ routing.error = "None"
             /\ routing.route /= <<>>
        /\ routing.error = "No route found" => routing.paths = <<>>

\* both backends raised, the graph search found paths and a route came back
C24_Witness ==
    /\ Routed
    /\ routing.use_cplex
    /\ routing.cplex_raised
    /\ routing.ortools_raised
    /\ SomeNonEmptyPath(routing)
    /\ routing.error = "None"
    /\ routing.solver_used = "Graph Search"
    /\ Len(routing.candidates) >= 2

\* the segment source returned no segment, or find_paths finds no path for
\* the request of the pending call
NoRouteFor(call) ==
    \/ call.segments = <<>>
    \/ FindPaths(BuildGraph(call.segments), call.from_asset, call.to_asset,
                 call.from_network, call.to_network, DefaultMaxHops) = <<>>

\* execute_route returned from its except branch before any segment
FailedBeforeRoute == pc = "done" /\ "error_message" \in DOMAIN response

\* C23: when the segment source returns no segments or no path connects
\* the request's source and destination, execute_route does not raise: it
\* returns a FAILED response with an error message and no segment result and
\* the record's stored status is FAILED; no segment executor has been or is
\* ever invoked for it and the ledger is unchanged.
C23_NoRouteFailsFast ==
    /\ [][(pc = "routing" /\ pc' /= "routing" /\ NoRouteFor(routing)) =>
            /\ pc' = "done"
            /\ response'.status = "FAILED"
            /\ response'.error_message \in {"No route segments available",
                                           "No route found"}
            /\ response'.segment_executions = <<>>
            /\ status' = "FAILED"
            /\ segment_executions' = <<>>
            /\ UNCHANGED <<call_vars, wallets, ledger_call>>]_vars
    /\ [](FailedBeforeRoute =>
            /\ segment_executions = <<>>
            /\ transaction_ids = {}
            /\ NoSegmentCall
            /\ wallets = EmptyLedger)
    /\ [][FailedBeforeRoute => pc' = "done"]_vars

\* the segment source held segments, none of them on a path for the request,
\* and execute_route returned
C23_Witness ==
    /\ FailedBeforeRoute
    /\ response.status = "FAILED"
    /\ response.error_message = "No route found"
    /\ status = "FAILED"
    /\ execution_state = "RUNNING"

\* a call of reroute_execution ends with this step
RerouteEnds == reroute_call.pc /= "returned" /\ reroute_call'.pc = "returned"

\* C30: a reroute that succeeds leaves the new route installed, the segment
\* count equal to its length and the state RUNNING; every other reroute
\* returns an error, without raising, and leaves route, segment count, state
\* and status as they were.
C30_RerouteAllOrNothing ==
    [][RerouteEnds =>
         \/ /\ reroute_call'.status = "rerouted"
            /\ reroute_call'.installed /= <<>>
            /\ route' = reroute_call'.installed
            /\ total_segments' = Len(route')
            /\ execution_state' = "RUNNING"
         \/ /\ reroute_call'.status = "error"
            /\ ~reroute_call'.raised
            /\ UNCHANGED <<route, total_segments, execution_state, status>>]_vars

\* C31: REROUTING is transient: a state that has become REROUTING (by the AI
\* re-route step of the loop or by reroute(id)) returns to RUNNING, and no
\* execution finishes with its state or its stored status REROUTING.
C31_ReroutingIsTransient ==
    pc = "done" => (execution_state # "REROUTING" /\ status # "REROUTING")

\* C32: in parallel mode, once a joined run holds a FAILED segment result the
\* whole execution stops: no later run is dispatched, and the status of the
\* returned result is FAILED.
C32_FailedRunStops ==
    /\ [][(parallel /\ pc = "pgroup" /\ AnyFailed(segment_executions))
            => pc' # "pgather"]_vars
    /\ []((parallel /\ pc = "done" /\ AnyFailed(segment_executions))
            => response.status = "FAILED")

Solved == solving.pc = "returned"

\* the candidates' values under an ordering's key
KeyOf(candidate, ordering) ==
    CASE ordering = "cost" -> candidate.total_cost
      [] ordering = "latency" -> candidate.total_latency
      [] ordering = "reliability" -> -candidate.reliability
      [] OTHER -> candidate.combined_score

\* C33: solve_multi_objective returns at most max_paths candidates, no path
\* twice; with max_paths >= 4 the result holds a best path of each of the
\* four orderings (cost, latency, reliability, combined score); and two
\* different paths are never taken for duplicates of each other, with or
\* without segment ids: a path found is left out only when the result is
\* full.
C33_DistinctBestPaths ==
    Solved =>
      LET result == solving.result
          found == [k \in 1..Len(solving.all_paths) |->
                      CalculatePathMetrics(solving.all_paths[k])]
      IN  /\ Len(result) <= solving.max_paths
          /\ \A i \in 1..Len(result), j \in 1..Len(result) :
               i /= j => result[i].path /= result[j].path
          /\ solving.max_paths >= 4 =>
               \A ordering \in {"cost", "latency", "reliability", "combined"} :
                 \A k \in 1..Len(found) :
                   \E r \in 1..Len(result) :
                     KeyOf(result[r], ordering) <= KeyOf(found[k], ordering)
          /\ Len(result) < solving.max_paths =>
               \A k \in 1..Len(found) :
                 \E r \in 1..Len(result) : result[r].path = found[k].path

\* what the executor of a segment's type computes for it
OutcomeOf(segment, amount) ==
    CASE segment.segment_type = "fx" -> FXExecutor(segment, amount)
      [] segment.segment_type = "crypto" -> CryptoExecutor(segment, amount)
      [] segment.segment_type = "bridge" -> BridgeExecutor(segment, amount)
      [] segment.segment_type = "bank_rail" -> BankRailExecutor(segment, amount)
      [] OTHER -> RampExecutor(segment, amount)

\* the segment with effective_fx_rate 1.0
AtRateOne(segment) == [segment EXCEPT !.cost.effective_fx_rate = Num(1)]

\* C34: a segment whose effective_fx_rate is absent or None (the schema's
\* default) is executed by every executor as with the rate 1.0: the call
\* returns what it returns for the same segment at rate 1.0, COMPLETED
\* whenever that one is, never FAILED for the lack of a rate.
C34_MissingRateIsOne ==
    (/\ ex_pc = "returned" /\ call_result /= NoResult
     /\ segment_dict.segment_type \in ExecutorTypes
     /\ segment_dict.cost.effective_fx_rate.kind \in {"absent", "none"})
    => LET outcome == OutcomeOf(AtRateOne(segment_dict), call_amount)
       IN  /\ call_result.status = IF outcome.raised THEN "FAILED" ELSE "COMPLETED"
           /\ call_result.output_amount = outcome.output_amount
           /\ call_result.fees_paid = outcome.fees

\* C35: a sequential execution that returns COMPLETED returns exactly one
\* result for each segment of the route it reports, in index order, each one
\* COMPLETED or SKIPPED and the result of that segment: no segment of the
\* reported route is left unexecuted.
C35_CompletedCoversRoute ==
    (Sequential /\ pc = "done" /\ response.status = "COMPLETED")
    => /\ Len(response.segment_executions) = Len(response.route)
       /\ \A k \in 1..Len(response.segment_executions) :
            /\ response.segment_executions[k].segment_index = k - 1
            /\ response.segment_executions[k].status \in {"COMPLETED", "SKIPPED"}
            /\ k <= Len(response.route) =>
                 /\ response.segment_executions[k].segment_type
                      = response.route[k].segment_type
                 /\ response.segment_executions[k].provider
                      = response.route[k].provider

\* cancel(id) has returned for an execution that had not finished
Cancelled == cancel_at \in {"boundary", "in_flight"}

\* C36: cancellation is sticky: once cancel(id) has returned for an execution
\* that has not finished, no later pause, resume or reroute brings its state
\* back to RUNNING, and the status of the returned result is CANCELLED or
\* FAILED, never COMPLETED.
C36_CancellationIsSticky ==
    Cancelled =>
      /\ execution_state /= "RUNNING"
      /\ pc = "done" => response.status \in {"CANCELLED", "FAILED"}

\* the call of _execute_segment returns a FAILED result in this step
ReturnsFailed ==
    ex_pc = "called" /\ ex_pc' = "returned" /\ call_result'.status = "FAILED"

\* C37: a segment execution that ends FAILED leaves the settlement ledger as
\* it was before the call: no wallet balance differs and no transaction has
\* been created, for every executor and every cause of the failure.
C37_FailedLeavesLedger ==
    [][ReturnsFailed =>
         /\ wallets' = wallets
         /\ ~call_result'.transaction_hash]_vars

=============================================================================
